---- MODULE Spec2Model ----
(***************************************************************************)
(* KinX (v1.3.0): the collection fetchers (listAll, runQueryAll,           *)
(* fetchJournalAll), the entity exports that call them, and the media      *)
(* download scheduler (downloadMedia), as state machines.  Every await of  *)
(* the JavaScript source is a point where a handler stops and another      *)
(* step (the server's answer, another worker) may run.                     *)
(***************************************************************************)
EXTENDS Integers, Sequences, FiniteSets, TLC

\* ---------------------------------------------------------------- bounds
MaxDocs == 3        \* documents in the collection under test
MaxVal == 2         \* distinct values of an order field (ties happen)
MaxPage == 2        \* largest configured page size
MaxFaults == 2      \* failed responses the data source may give in one run
MaxEmptyPages == 1  \* listing pages without documents (with a token, or after the last documents)
MaxMetaRows == 1    \* rows without a document among the rows of query pages that have documents
MaxTasks == 3       \* download tasks in one batch
MaxDests == 2       \* distinct destination paths
MaxWorkers == 2     \* largest configured download concurrency
MaxExportDocs == 1  \* documents in each collection of an exported entity
MaxRuns == 2        \* calls of downloadMedia over the same task list
MaxKins == 2        \* Kins of the account
MaxGroups == 1      \* Group Chats of the account
MaxBulkFaults == 1  \* failed responses in one Export All
MaxPrompts == 2     \* times askYesNo puts its question
MaxDepth == 2       \* maps and arrays nested around a wire value
MaxPinned == 3      \* pinned messages of an exported entity

\* ------------------------------------------------------------- constants
\* const { id_token, user_id } = await refreshIdToken(refreshToken)
user_id == "uid"

KinPath == <<"Users", "uid", "AIs", "kin1">>
GroupPath == <<"Users", "uid", "Groups", "group1">>
UserPath == <<"Users", "uid">>
KinIds == <<"kin1", "kin2", "kin3", "kin4">>
GroupIds == <<"group1", "group2", "group3">>
CollectionIds == {"ChatMessages", "PinnedMessages", "JournalV3", "Selfies", "VideoSelfies"}

\* The field the documents of each collection carry and are ordered by.
FieldOfCollection ==
  [c \in CollectionIds |-> IF c = "JournalV3" THEN "created" ELSE "timestamp"]

NullValue == 0      \* the wire value { nullValue: null }; sorts before every value
NoToken == 0        \* the empty page token ''

VARIABLES
  CONFIG,       \* the CONFIG object: QUERY_PAGE_SIZE, MAX_LIST_PAGE_SIZE, DOWNLOAD_CONCURRENCY
  store,        \* data source: collection id -> set of documents
  faults,       \* failed responses the data source may still give
  failLog,      \* history: the failed responses given, with the request each answered
  emptyPages,   \* tokens given so far with or before a page without documents
  metaRows,     \* rows without a document given so far in pages that have documents
  entry,        \* the top-level call under way
  stack,        \* call sites awaiting the running fetcher, innermost last
  pc,           \* position of the running function
  args,         \* arguments of the running fetcher
  documents,    \* local `documents` of listAll / runQueryAll
  lastDoc,      \* local `lastDoc` of runQueryAll (<<>> is null)
  pageToken,    \* local `pageToken` of listAll
  net,          \* requests sent and not yet answered
  resp,         \* the response the awaiting function is resumed with (<<>> none)
  reqLog,       \* every request issued, in order
  ret,          \* completion of the function that just finished
  outcome       \* completion of the top-level call

fetchVars == <<CONFIG, store, faults, failLog, emptyPages, metaRows, entry, stack, pc, args, documents,
               lastDoc, pageToken, net, resp, reqLog, ret, outcome>>

\* downloadMedia
VARIABLES
  items,            \* the argument: tasks [id, url, dest], id the position in the list
  dl,               \* position of downloadMedia: "idle", "start", "running", "resolved"
  itemsToProcess,   \* the shared pool
  completed,        \* counter `completed`
  failed,           \* counter `failed`
  total,            \* `total`
  workers,          \* worker promises: index -> [pc, item] (item <<>> when none)
  disk,             \* destinations that exist
  takenBy,          \* history: task id -> workers that popped it, in order
  counted,          \* history: task id -> counters incremented for it, in order
  fetched,          \* history: task id -> number of fetches of its URL
  io,               \* history: task id -> what its worker did and met, in order
  runs              \* history: the calls that resolved before this one: [completed, failed, fetched]

dlVars == <<items, dl, itemsToProcess, completed, failed, total, workers, disk, takenBy,
            counted, fetched, io, runs>>

\* exportKin / exportGroup
VARIABLES
  files,            \* JSON files written, in order: [name, items]
  packedSelfies,    \* local `packedSelfies` of exportKin
  packedVideoSelfies, \* local `packedVideoSelfies` of exportKin
  prompts           \* history: the questions askYesNo put, each with its answer ("" none yet)

exportVars == <<files, packedSelfies, packedVideoSelfies, prompts>>

\* handleExportAll
VARIABLES
  account,          \* data source: the account's collections AIs, Groups, GlobalJournalV3
  kins,             \* local `kins`: ids, in listing order
  groups,           \* local `groups`
  at,               \* position of the running for-of loop
  calls,            \* history: the exports started, in order: [fn, id, result]
  logged,           \* history: console.error lines: [fn, id, error]
  decodedWith       \* history: the values passed as `uid` to packDocs and decodeFields

bulkVars == <<account, kins, groups, at, calls, logged>>

allVars == <<bulkVars, decodedWith>>

\* decodeValue / decodeFields
VARIABLES
  wire,             \* the argument: a value as JSON.parse gave it
  secret,           \* the argument `uid`
  dpc,              \* "build", then the function applied: "decodeValue" or "decodeFields"
  decoded,          \* what the call returned, or TypeError when it threw
  attempts          \* history: the texts decryptEncString was called with

decVars == <<wire, secret, dpc, decoded, attempts>>

\* two versions of the program against the same responses
VARIABLES
  version,          \* the program that runs: "1.3.0" (part_001) or "1.1.0" (kinx.mjs)
  responses,        \* history: the responses the data source gave to version 1.1.0
  earlier           \* history: what version 1.1.0 did, once it has finished: <<[reqLog, files, outcome]>>

cmpVars == <<version, responses, earlier>>

vars == <<fetchVars, dlVars, exportVars, allVars, decVars, cmpVars>>

\* ----------------------------------------------------------------- helpers
Min(a, b) == IF a < b THEN a ELSE b

Range(s) == {s[i] : i \in 1..Len(s)}

NoDuplicates(s) == \A i, j \in 1..Len(s) : i # j => s[i] # s[j]

\* ------------------------------------------------------------ data source
\* Value a document is ordered by under one field path.
FieldValue(doc, path) ==
  IF path = "__name__" THEN doc.name
  ELSE IF path \in DOMAIN doc.fields THEN doc.fields[path] ELSE NullValue

HasField(doc, path) == path = "__name__" \/ path \in DOMAIN doc.fields

\* Lexicographic "a strictly before b" under an orderBy list.
RECURSIVE KeyLess(_, _, _)
KeyLess(ka, kb, orderBy) ==
  IF orderBy = <<>> THEN FALSE
  ELSE LET a == Head(ka)
           b == Head(kb)
           lt == IF Head(orderBy).direction = "ASCENDING" THEN a < b ELSE a > b
       IN lt \/ (a = b /\ KeyLess(Tail(ka), Tail(kb), Tail(orderBy)))

KeyOf(doc, orderBy) == [i \in 1..Len(orderBy) |-> FieldValue(doc, orderBy[i].field)]

RECURSIVE SortDocs(_, _)
SortDocs(S, orderBy) ==
  IF S = {} THEN <<>>
  ELSE LET m == CHOOSE d \in S :
                  \A e \in S \ {d} : KeyLess(KeyOf(d, orderBy), KeyOf(e, orderBy), orderBy)
       IN <<m>> \o SortDocs(S \ {m}, orderBy)

\* Documents a query or ordered listing ranges over: those carrying every order field.
Matching(S, orderBy) == {d \in S : \A i \in 1..Len(orderBy) : HasField(d, orderBy[i].field)}

Asc(f) == [field |-> f, direction |-> "ASCENDING"]

\* The listing endpoint's reading of its orderBy parameter; with none, name order.
ParseOrderBy(clause) ==
  CASE clause = "created asc,__name__ asc" -> <<Asc("created"), Asc("__name__")>>
    [] clause = "timestamp asc,__name__ asc" -> <<Asc("timestamp"), Asc("__name__")>>
    [] OTHER -> <<Asc("__name__")>>

\* The document under which the data source keeps the collections of `store`: the
\* entity being exported (every entity of an account holds the same documents).
Home == IF entry.fn \in {"exportKin", "exportGroup"} THEN entry.parentDocPath ELSE KinPath

\* The documents of collection `id` under document `path`.
Collection(path, id) ==
  IF id \in CollectionIds /\ path = Home THEN store[id]
  ELSE IF path = UserPath /\ id \in DOMAIN account THEN account[id]
  ELSE {}

\* Is a document at or after the startAt cursor?
AfterCursor(doc, orderBy, cursor) ==
  \/ cursor = <<>>
  \/ LET c == cursor[1]
     IN \/ KeyLess(c.values, KeyOf(doc, orderBy), orderBy)
        \/ (c.before /\ c.values = KeyOf(doc, orderBy))

\* Documents a runQuery request selects, in order, cut at its limit.
QueryPage(req) ==
  LET S == Collection(req.path, req.collectionId)
      all == SortDocs(Matching(S, req.orderBy), req.orderBy)
      rest == SelectSeq(all, LAMBDA d : AfterCursor(d, req.orderBy, req.startAt))
  IN SubSeq(rest, 1, Min(req.limit, Len(rest)))

\* The whole listing of a collection in the order a list request asks for.
Listing(req) ==
  LET id == req.path[Len(req.path)]
      S == Collection(SubSeq(req.path, 1, Len(req.path) - 1), id)
      ob == ParseOrderBy(req.orderByParam)
  IN SortDocs(Matching(S, ob), ob)

\* ------------------------------------------------------------------ errors
\* Texts are sequences of atoms: single characters, or a word standing for
\* itself where no needle can straddle it.
DigitChar(d) ==
  CASE d = 0 -> "0" [] d = 1 -> "1" [] d = 2 -> "2" [] d = 3 -> "3" [] d = 4 -> "4"
    [] d = 5 -> "5" [] d = 6 -> "6" [] d = 7 -> "7" [] d = 8 -> "8" [] OTHER -> "9"

StatusText(n) == <<DigitChar(n \div 100), DigitChar((n \div 10) % 10), DigitChar(n % 10)>>

\* Failed responses of the data source: status and body text.
Failures ==
  { [net |-> FALSE, status |-> 403, body |-> <<"{", "PERMISSION_DENIED", "}">>],
    [net |-> FALSE, status |-> 400, body |-> <<"{", "FAILED_PRECONDITION", "}">>],
    [net |-> FALSE, status |-> 500, body |-> <<"{", "INTERNAL", "}">>],
    [net |-> FALSE, status |-> 500, body |-> <<"r", "e", "q", "-", "1", "4", "0", "3", "7">>],
    [net |-> TRUE, status |-> 0, body |-> <<>>] }

\* String(e) of the Error httpGET / httpPOST throw, or of fetch's own TypeError.
HttpError(method, r) ==
  IF r.net THEN <<"TypeError: fetch failed">>
  ELSE <<"Error: ", "HTTP ", method, " failed: ">> \o StatusText(r.status) \o <<" ">> \o r.body

\* String.prototype.includes
Includes(text, needle) ==
  \E i \in 1..(Len(text) - Len(needle) + 1) : SubSeq(text, i, i + Len(needle) - 1) = needle

IsPermissionError(e) ==
  Includes(e, <<"PERMISSION_DENIED">>) \/ Includes(e, <<"4", "0", "3">>)


\* ------------------------------------------------------- requests, results
Request(kind, path) ==
  [kind |-> kind, path |-> path, collectionId |-> "", orderBy |-> <<>>, limit |-> 0,
   startAt |-> <<>>, pageSize |-> 0, orderByParam |-> "", pageToken |-> NoToken]

Response(ok) ==
  [ok |-> ok, net |-> FALSE, status |-> IF ok THEN 200 ELSE 0, body |-> <<>>,
   rows |-> <<>>, documents |-> <<>>, nextPageToken |-> NoToken]

NoResult == [kind |-> "none", docs |-> <<>>, error |-> <<>>]
Returned(docs) == [kind |-> "value", docs |-> docs, error |-> <<>>]
Thrown(e) == [kind |-> "throw", docs |-> <<>>, error |-> e]

Top(s) == s[Len(s)]
Pop(s) == SubSeq(s, 1, Len(s) - 1)

\* While version 1.1.0 runs, the response given is kept for version 1.3.0.
Recorded ==
  /\ responses' = IF version = "1.1.0" THEN Append(responses, resp'[1]) ELSE responses
  /\ UNCHANGED <<version, earlier>>

\* The data source answers one outstanding request with a failure.
ServerFails ==
  /\ net # <<>> /\ resp = <<>> /\ earlier = <<>>
  /\ faults > 0
  /\ \E f \in Failures :
       resp' = <<[Response(FALSE) EXCEPT !.net = f.net, !.status = f.status, !.body = f.body]>>
  /\ failLog' = Append(failLog, [index |-> Len(reqLog) - Len(net) + 1,
                                   kind |-> Head(net).kind, net |-> resp'[1].net,
                                   status |-> resp'[1].status, body |-> resp'[1].body])
  /\ net' = Tail(net)
  /\ faults' = faults - 1
  /\ UNCHANGED <<CONFIG, store, emptyPages, metaRows, entry, stack, pc, args, documents, lastDoc,
                 pageToken, reqLog, ret, outcome, dlVars, exportVars, allVars>>
  /\ UNCHANGED decVars
  /\ Recorded

\* The rows with x put in after the first p of them.
InsertAt(rows, p, x) == SubSeq(rows, 1, p) \o <<x>> \o SubSeq(rows, p + 1, Len(rows))

\* The data source answers a runQuery request: one row per selected document, or a
\* single row without a document when nothing is selected.  Among the rows of the
\* documents it may put a row that carries no document (progress, read time);
\* metaRows counts these.
ServerRunQuery ==
  /\ net # <<>> /\ resp = <<>> /\ earlier = <<>>
  /\ Head(net).kind = "runQuery"
  /\ LET page == QueryPage(Head(net))
         rows == IF page = <<>> THEN << <<>> >> ELSE [i \in 1..Len(page) |-> <<page[i]>>]
     IN \E extra \in BOOLEAN, p \in 0..Len(page) :
          /\ extra => (page # <<>> /\ metaRows < MaxMetaRows)
          /\ ~extra => p = 0
          /\ resp' = <<[Response(TRUE) EXCEPT
                          !.rows = IF extra THEN InsertAt(rows, p, <<>>) ELSE rows]>>
          /\ metaRows' = IF extra THEN metaRows + 1 ELSE metaRows
  /\ net' = Tail(net)
  /\ UNCHANGED <<CONFIG, store, faults, failLog, emptyPages, entry, stack, pc, args, documents,
                 lastDoc, pageToken, reqLog, ret, outcome, dlVars, exportVars, allVars>>
  /\ UNCHANGED decVars
  /\ Recorded

\* The data source answers a list request with the next page of the chain: at most
\* pageSize documents from the token's position, and a token while documents remain.
\* It may also give a page that has a token and no documents, or a token with the last
\* documents (the page after it is empty); emptyPages counts these.
ServerList ==
  /\ net # <<>> /\ resp = <<>> /\ earlier = <<>>
  /\ Head(net).kind = "list"
  /\ LET req == Head(net)
         all == Listing(req)
         o == IF req.pageToken = NoToken THEN 0 ELSE req.pageToken - 1
         remaining == Len(all) - o
     IN \E k \in 0..Min(req.pageSize, remaining), more \in BOOLEAN :
          /\ k < remaining => more
          /\ (more /\ (k = 0 \/ k = remaining)) => emptyPages < MaxEmptyPages
          /\ emptyPages' = IF more /\ (k = 0 \/ k = remaining)
                           THEN emptyPages + 1 ELSE emptyPages
          /\ resp' = <<[Response(TRUE) EXCEPT
                          !.documents = IF k = 0 THEN <<>> ELSE <<SubSeq(all, o + 1, o + k)>>,
                          !.nextPageToken = IF more THEN o + k + 1 ELSE NoToken]>>
  /\ net' = Tail(net)
  /\ UNCHANGED <<CONFIG, store, faults, failLog, metaRows, entry, stack, pc, args, documents, lastDoc,
                 pageToken, reqLog, ret, outcome, dlVars, exportVars, allVars>>
  /\ UNCHANGED decVars
  /\ Recorded

\* ------------------------------------------------------------------ listAll
NoArgs ==
  [fn |-> "", parentDocPath |-> <<>>, collectionId |-> "", orderField |-> "",
   collectionPath |-> <<>>, orderByClause |-> "", forceDownloadMedia |-> FALSE,
   uid |-> ""]

\* A call of listAll from call site `site`, with callers `st` below it.
EnterListAll(st, site, collectionPath, orderByClause) ==
  /\ args' = [NoArgs EXCEPT !.fn = "listAll", !.collectionPath = collectionPath,
                            !.orderByClause = orderByClause]
  /\ documents' = <<>>
  /\ pageToken' = NoToken
  /\ lastDoc' = <<>>
  /\ stack' = Append(st, site)
  /\ pc' = "listAll.request"

\* A listing whose requests never carry the token.
ListAll_RequestWithoutToken ==
  /\ pc = "listAll.request"
  /\ LET req == [Request("list", args.collectionPath) EXCEPT
                   !.pageSize = CONFIG.MAX_LIST_PAGE_SIZE,
                   !.orderByParam = args.orderByClause]
     IN /\ net' = Append(net, req)
        /\ reqLog' = Append(reqLog, req)
  /\ pc' = "listAll.await"
  /\ UNCHANGED <<CONFIG, store, faults, failLog, emptyPages, metaRows, entry, stack, args, documents, lastDoc,
                 pageToken, resp, ret, outcome, dlVars, exportVars, allVars>>
  /\ UNCHANGED decVars
  /\ UNCHANGED cmpVars

\* A request loop that does not wait for its response before asking again.
ListAll_RequestNoAwait ==
  /\ pc = "listAll.request" /\ Len(net) < 2
  /\ LET req == [Request("list", args.collectionPath) EXCEPT
                   !.pageSize = CONFIG.MAX_LIST_PAGE_SIZE,
                   !.orderByParam = args.orderByClause,
                   !.pageToken = pageToken]
     IN /\ net' = Append(net, req)
        /\ reqLog' = Append(reqLog, req)
  /\ pc' = IF net = <<>> THEN pc ELSE "listAll.await"
  /\ UNCHANGED <<CONFIG, store, faults, failLog, emptyPages, metaRows, entry, stack, args, documents, lastDoc,
                 pageToken, resp, ret, outcome, dlVars, exportVars, allVars>>
  /\ UNCHANGED decVars
  /\ UNCHANGED cmpVars

ListAll_Request ==
  /\ pc = "listAll.request"
  /\ LET req == [Request("list", args.collectionPath) EXCEPT
                   !.pageSize = CONFIG.MAX_LIST_PAGE_SIZE,
                   !.orderByParam = args.orderByClause,
                   !.pageToken = pageToken]
     IN /\ net' = Append(net, req)
        /\ reqLog' = Append(reqLog, req)
  /\ pc' = "listAll.await"
  /\ UNCHANGED <<CONFIG, store, faults, failLog, emptyPages, metaRows, entry, stack, args, documents, lastDoc,
                 pageToken, resp, ret, outcome, dlVars, exportVars, allVars>>
  /\ UNCHANGED decVars
  /\ UNCHANGED cmpVars

\* A listing page that stops the loop at a page without documents.
NextPageTokenStopsAtEmptyPage(r) == IF r.documents = <<>> THEN NoToken ELSE r.nextPageToken

\* response.nextPageToken || ''
NextPageToken(r) == r.nextPageToken

ListAll_Response ==
  /\ pc = "listAll.await" /\ resp # <<>>
  /\ LET r == resp[1]
         docs == IF r.documents # <<>> THEN documents \o r.documents[1] ELSE documents
     IN IF ~r.ok
        THEN /\ ret' = Thrown(HttpError("GET", r))
             /\ pc' = "resume"
             /\ UNCHANGED <<documents, pageToken>>
        ELSE /\ documents' = docs
             /\ pageToken' = NextPageToken(r)
             /\ IF NextPageToken(r) # NoToken
                THEN pc' = "listAll.request" /\ UNCHANGED ret
                ELSE pc' = "resume" /\ ret' = Returned(docs)
  /\ resp' = <<>>
  /\ UNCHANGED <<CONFIG, store, faults, failLog, emptyPages, metaRows, entry, stack, args, lastDoc, net,
                 reqLog, outcome, dlVars, exportVars, allVars>>
  /\ UNCHANGED decVars
  /\ UNCHANGED cmpVars

\* -------------------------------------------------------------- runQueryAll
valueForCursor(doc, field) ==
  IF field = "__name__" THEN doc.name
  ELSE IF field \in DOMAIN doc.fields THEN doc.fields[field] ELSE NullValue

\* A cursor that starts at the last document instead of after it.
StartAtInclusive(doc, orderField) ==
  [values |-> <<valueForCursor(doc, orderField), valueForCursor(doc, "__name__")>>,
   before |-> TRUE]

\* A cursor with its two values the other way round.
StartAtNameFirst(doc, orderField) ==
  [values |-> <<valueForCursor(doc, "__name__"), valueForCursor(doc, orderField)>>,
   before |-> FALSE]

StartAt(doc, orderField) ==
  [values |-> <<valueForCursor(doc, orderField), valueForCursor(doc, "__name__")>>,
   before |-> FALSE]

EnterRunQueryAll(st, site, parentDocPath, collectionId, orderField) ==
  /\ args' = [NoArgs EXCEPT !.fn = "runQueryAll", !.parentDocPath = parentDocPath,
                            !.collectionId = collectionId, !.orderField = orderField]
  /\ documents' = <<>>
  /\ lastDoc' = <<>>
  /\ pageToken' = NoToken
  /\ stack' = Append(st, site)
  /\ pc' = "runQueryAll.request"

RunQueryAll_Request ==
  /\ pc = "runQueryAll.request"
  /\ LET req == [Request("runQuery", args.parentDocPath) EXCEPT
                   !.collectionId = args.collectionId,
                   !.orderBy = <<Asc(args.orderField), Asc("__name__")>>,
                   !.limit = CONFIG.QUERY_PAGE_SIZE,
                   !.startAt = IF lastDoc = <<>> THEN <<>>
                               ELSE <<StartAt(lastDoc[1], args.orderField)>>]
     IN /\ net' = Append(net, req)
        /\ reqLog' = Append(reqLog, req)
  /\ pc' = "runQueryAll.await"
  /\ UNCHANGED <<CONFIG, store, faults, failLog, emptyPages, metaRows, entry, stack, args, documents, lastDoc,
                 pageToken, resp, ret, outcome, dlVars, exportVars, allVars>>
  /\ UNCHANGED decVars
  /\ UNCHANGED cmpVars

\* A reading of the rows that ends at the first row without a document.
RECURSIVE DocsInPageUntilGap(_)
DocsInPageUntilGap(rows) ==
  IF rows = <<>> \/ Head(rows) = <<>> THEN <<>>
  ELSE <<Head(rows)[1]>> \o DocsInPageUntilGap(Tail(rows))

\* rows.map(r => r.document).filter(Boolean)
DocsInPage(rows) ==
  LET withDoc == SelectSeq(rows, LAMBDA r : r # <<>>)
  IN [i \in 1..Len(withDoc) |-> withDoc[i][1]]

\* A loop that stops at an empty page only.
AnotherPageIfAny(n) == ~(n = 0)

\* Does the loop go on to another page after a page of n documents?
AnotherPage(n) == ~(n = 0) /\ ~(n < CONFIG.QUERY_PAGE_SIZE)

\* A response handler that answers a failed page with the documents so far.
RunQueryAll_ResponseSwallows ==
  /\ pc = "runQueryAll.await" /\ resp # <<>>
  /\ LET r == resp[1]
         docsInPage == DocsInPage(r.rows)
         docs == documents \o docsInPage
     IN IF ~r.ok \/ Len(docsInPage) = 0
        THEN /\ ret' = Returned(documents)
             /\ pc' = "resume"
             /\ UNCHANGED <<documents, lastDoc>>
        ELSE /\ documents' = docs
             /\ lastDoc' = <<docsInPage[Len(docsInPage)]>>
             /\ IF AnotherPage(Len(docsInPage))
                THEN pc' = "runQueryAll.request" /\ UNCHANGED ret
                ELSE pc' = "resume" /\ ret' = Returned(docs)
  /\ resp' = <<>>
  /\ UNCHANGED <<CONFIG, store, faults, failLog, emptyPages, metaRows, entry, stack, args, pageToken, net,
                 reqLog, outcome, dlVars, exportVars, allVars>>
  /\ UNCHANGED decVars
  /\ UNCHANGED cmpVars

RunQueryAll_Response ==
  /\ pc = "runQueryAll.await" /\ resp # <<>>
  /\ LET r == resp[1]
         docsInPage == DocsInPage(r.rows)
         docs == documents \o docsInPage
     IN IF ~r.ok
        THEN /\ ret' = Thrown(HttpError("POST", r))
             /\ pc' = "resume"
             /\ UNCHANGED <<documents, lastDoc>>
        ELSE IF Len(docsInPage) = 0
        THEN /\ ret' = Returned(documents)
             /\ pc' = "resume"
             /\ UNCHANGED <<documents, lastDoc>>
        ELSE /\ documents' = docs
             /\ lastDoc' = <<docsInPage[Len(docsInPage)]>>
             /\ IF AnotherPage(Len(docsInPage))
                THEN pc' = "runQueryAll.request" /\ UNCHANGED ret
                ELSE pc' = "resume" /\ ret' = Returned(docs)
  /\ resp' = <<>>
  /\ UNCHANGED <<CONFIG, store, faults, failLog, emptyPages, metaRows, entry, stack, args, pageToken, net,
                 reqLog, outcome, dlVars, exportVars, allVars>>
  /\ UNCHANGED decVars
  /\ UNCHANGED cmpVars

\* ---------------------------------------------------------- fetchJournalAll
\* The chat fallback's order clause, used for the journal.
JournalOrderByOfChat == "timestamp asc,__name__ asc"

JournalOrderBy == "created asc,__name__ asc"

\* A call of fetchJournalAll from `site`: the try block calls runQueryAll.
EnterFetchJournalAll(st, site, parentDocPath, collectionId) ==
  EnterRunQueryAll(Append(st, site), "fetchJournalAll.try", parentDocPath, collectionId,
                   "created")

\* return await runQueryAll(...) succeeded.
FetchJournalAll_Return ==
  /\ pc = "resume" /\ stack # <<>> /\ Top(stack) = "fetchJournalAll.try"
  /\ ret.kind = "value"
  /\ stack' = Pop(stack)
  /\ UNCHANGED <<CONFIG, store, faults, failLog, emptyPages, metaRows, entry, pc, args, documents, lastDoc,
                 pageToken, net, resp, reqLog, ret, outcome, dlVars, exportVars, allVars>>
  /\ UNCHANGED decVars
  /\ UNCHANGED cmpVars

\* A fallback that lists into the array the failed query was filling.
FetchJournalAll_FallbackKeepsDocuments ==
  /\ pc = "resume" /\ stack # <<>> /\ Top(stack) = "fetchJournalAll.try"
  /\ ret.kind = "throw"
  /\ IsPermissionError(ret.error)
  /\ args' = [NoArgs EXCEPT !.fn = "listAll",
                            !.collectionPath = Append(args.parentDocPath, args.collectionId),
                            !.orderByClause = JournalOrderBy]
  /\ pageToken' = NoToken
  /\ stack' = Append(Pop(stack), "fetchJournalAll.catch")
  /\ pc' = "listAll.request"
  /\ ret' = NoResult
  /\ UNCHANGED <<documents, lastDoc>>
  /\ UNCHANGED <<CONFIG, store, faults, failLog, emptyPages, metaRows, entry, net, resp, reqLog, outcome, dlVars, exportVars, allVars>>
  /\ UNCHANGED decVars
  /\ UNCHANGED cmpVars

\* catch (e), permission branch: return await listAll(...).
FetchJournalAll_Fallback ==
  /\ pc = "resume" /\ stack # <<>> /\ Top(stack) = "fetchJournalAll.try"
  /\ ret.kind = "throw"
  /\ IsPermissionError(ret.error)
  /\ EnterListAll(Pop(stack), "fetchJournalAll.catch",
                  Append(args.parentDocPath, args.collectionId), JournalOrderBy)
  /\ ret' = NoResult
  /\ UNCHANGED <<CONFIG, store, faults, failLog, emptyPages, metaRows, entry, net, resp, reqLog, outcome, dlVars, exportVars, allVars>>
  /\ UNCHANGED decVars
  /\ UNCHANGED cmpVars

\* catch (e), throw e.
FetchJournalAll_Rethrow ==
  /\ pc = "resume" /\ stack # <<>> /\ Top(stack) = "fetchJournalAll.try"
  /\ ret.kind = "throw"
  /\ ~IsPermissionError(ret.error)
  /\ stack' = Pop(stack)
  /\ UNCHANGED <<CONFIG, store, faults, failLog, emptyPages, metaRows, entry, pc, args, documents, lastDoc,
                 pageToken, net, resp, reqLog, ret, outcome, dlVars, exportVars, allVars>>
  /\ UNCHANGED decVars
  /\ UNCHANGED cmpVars

\* A fallback that tries the listing again after a permission error.
FetchJournalAll_FallbackRetries ==
  /\ pc = "resume" /\ stack # <<>> /\ Top(stack) = "fetchJournalAll.catch"
  /\ IF ret.kind = "throw" /\ IsPermissionError(ret.error)
     THEN /\ EnterListAll(Pop(stack), "fetchJournalAll.catch", args.collectionPath,
                          JournalOrderBy)
          /\ ret' = NoResult
     ELSE /\ stack' = Pop(stack)
          /\ UNCHANGED <<pc, args, documents, lastDoc, pageToken, ret>>
  /\ UNCHANGED <<CONFIG, store, faults, failLog, emptyPages, metaRows, entry, net, resp, reqLog,
                 outcome, dlVars, exportVars, allVars>>
  /\ UNCHANGED decVars
  /\ UNCHANGED cmpVars

\* The listing fallback finished: its value or its error is fetchJournalAll's.
FetchJournalAll_FallbackDone ==
  /\ pc = "resume" /\ stack # <<>> /\ Top(stack) = "fetchJournalAll.catch"
  /\ stack' = Pop(stack)
  /\ UNCHANGED <<CONFIG, store, faults, failLog, emptyPages, metaRows, entry, pc, args, documents, lastDoc,
                 pageToken, net, resp, reqLog, ret, outcome, dlVars, exportVars, allVars>>
  /\ UNCHANGED decVars
  /\ UNCHANGED cmpVars

\* ------------------------------------------------------- the top-level call
CallListAll ==
  /\ pc = "start" /\ entry.fn = "listAll"
  /\ EnterListAll(<<>>, "top", entry.collectionPath, entry.orderByClause)
  /\ UNCHANGED <<CONFIG, store, faults, failLog, emptyPages, metaRows, entry, net, resp, reqLog, ret, outcome, dlVars, exportVars, allVars>>
  /\ UNCHANGED decVars
  /\ UNCHANGED cmpVars

CallRunQueryAll ==
  /\ pc = "start" /\ entry.fn = "runQueryAll"
  /\ EnterRunQueryAll(<<>>, "top", entry.parentDocPath, entry.collectionId, entry.orderField)
  /\ UNCHANGED <<CONFIG, store, faults, failLog, emptyPages, metaRows, entry, net, resp, reqLog, ret, outcome, dlVars, exportVars, allVars>>
  /\ UNCHANGED decVars
  /\ UNCHANGED cmpVars

CallFetchJournalAll ==
  /\ pc = "start" /\ entry.fn = "fetchJournalAll"
  /\ EnterFetchJournalAll(<<>>, "top", entry.parentDocPath, entry.collectionId)
  /\ UNCHANGED <<CONFIG, store, faults, failLog, emptyPages, metaRows, entry, net, resp, reqLog, ret, outcome, dlVars, exportVars, allVars>>
  /\ UNCHANGED decVars
  /\ UNCHANGED cmpVars

\* The top-level call resolves or rejects.
Finish ==
  /\ pc = "resume" /\ stack = <<"top">>
  /\ outcome' = ret
  /\ stack' = <<>>
  /\ pc' = "done"
  /\ UNCHANGED <<CONFIG, store, faults, failLog, emptyPages, metaRows, entry, args, documents, lastDoc,
                 pageToken, net, resp, reqLog, ret, dlVars, exportVars, allVars>>
  /\ UNCHANGED decVars
  /\ UNCHANGED cmpVars

\* ------------------------------------------------------------ specification
Docs(c, n) ==
  {[i \in 1..n |-> [name |-> i, createTime |-> 1000,
                     fields |-> [f \in {FieldOfCollection[c]} |-> v[i]]]] :
     v \in [1..n -> 1..MaxVal]}

\* The stores in which only collection c holds documents (at most MaxDocs).
Stores(c) ==
  {[d \in CollectionIds |-> IF d = c THEN Range(ds) ELSE {}] :
     ds \in UNION {Docs(c, n) : n \in 0..MaxDocs}}

\* The calls the program makes of its three fetchers.
FetchEntries ==
  { [NoArgs EXCEPT !.fn = "runQueryAll", !.parentDocPath = KinPath,
                   !.collectionId = "ChatMessages", !.orderField = "timestamp"],
    [NoArgs EXCEPT !.fn = "listAll", !.collectionPath = Append(KinPath, "PinnedMessages")],
    [NoArgs EXCEPT !.fn = "listAll", !.collectionPath = Append(KinPath, "Selfies"),
                   !.orderByClause = "timestamp asc,__name__ asc"],
    [NoArgs EXCEPT !.fn = "fetchJournalAll", !.parentDocPath = KinPath,
                   !.collectionId = "JournalV3"] }

EntryCollection(e) ==
  IF e.fn = "listAll" THEN e.collectionPath[Len(e.collectionPath)] ELSE e.collectionId

DownloadIdle ==
  /\ items = <<>>
  /\ dl = "idle"
  /\ itemsToProcess = <<>>
  /\ completed = 0
  /\ failed = 0
  /\ total = 0
  /\ workers = <<>>
  /\ disk = {}
  /\ takenBy = <<>>
  /\ counted = <<>>
  /\ fetched = <<>>
  /\ io = <<>>
  /\ runs = <<>>

ExportIdle ==
  /\ files = <<>>
  /\ packedSelfies = <<>>
  /\ packedVideoSelfies = <<>>
  /\ prompts = <<>>

NoAccount == [c \in {"AIs", "Groups", "GlobalJournalV3"} |-> {}]

DecodeIdle ==
  /\ wire = [j |-> "undefined"]
  /\ secret = ""
  /\ dpc = "idle"
  /\ decoded = [j |-> "undefined"]
  /\ attempts = {}

CompareIdle ==
  /\ version = "1.3.0"
  /\ responses = <<>>
  /\ earlier = <<>>

AllIdle ==
  /\ CompareIdle
  /\ kins = <<>>
  /\ groups = <<>>
  /\ at = 0
  /\ calls = <<>>
  /\ logged = <<>>
  /\ decodedWith = {}

FetchIdle ==
  /\ emptyPages = 0
  /\ metaRows = 0
  /\ stack = <<>>
  /\ args = NoArgs
  /\ documents = <<>>
  /\ lastDoc = <<>>
  /\ pageToken = NoToken
  /\ net = <<>>
  /\ resp = <<>>
  /\ reqLog = <<>>
  /\ ret = NoResult
  /\ outcome = NoResult

Init ==
  /\ entry \in FetchEntries
  /\ store \in Stores(EntryCollection(entry))
  /\ CONFIG \in [QUERY_PAGE_SIZE : 1..MaxPage, MAX_LIST_PAGE_SIZE : 1..MaxPage,
                 DOWNLOAD_CONCURRENCY : {1}]
  /\ entry.fn = "listAll" => CONFIG.QUERY_PAGE_SIZE = MaxPage
  /\ entry.fn = "runQueryAll" => CONFIG.MAX_LIST_PAGE_SIZE = MaxPage
  /\ faults = MaxFaults
  /\ failLog = <<>>
  /\ pc = "start"
  /\ FetchIdle
  /\ DownloadIdle
  /\ ExportIdle
  /\ AllIdle
  /\ DecodeIdle
  /\ account = NoAccount

Next ==
  \/ CallListAll
  \/ CallRunQueryAll
  \/ CallFetchJournalAll
  \/ ListAll_Request
  \/ ListAll_Response
  \/ RunQueryAll_Request
  \/ RunQueryAll_Response
  \/ ServerFails
  \/ ServerRunQuery
  \/ ServerList
  \/ FetchJournalAll_Return
  \/ FetchJournalAll_Fallback
  \/ FetchJournalAll_Rethrow
  \/ FetchJournalAll_FallbackDone
  \/ Finish

Spec == Init /\ [][Next]_vars


\* ------------------------------------------------------------ downloadMedia
\* One worker per task, whatever the configured concurrency.
NumWorkersUncapped(list) == Len(list)

\* Math.min(CONFIG.DOWNLOAD_CONCURRENCY, items.length)
NumWorkers(list) == Min(CONFIG.DOWNLOAD_CONCURRENCY, Len(list))

\* A loop head that reads the last task and leaves it in the pool.
TakeWithoutRemoving(pool) ==
  IF Len(pool) > 0
  THEN [pool |-> pool, slot |-> [pc |-> "access", item |-> <<pool[Len(pool)]>>]]
  ELSE [pool |-> pool, slot |-> [pc |-> "exited", item |-> <<>>]]

\* The head of the worker loop, run without suspension: the length test and the pop.
\* (Tasks are objects, so the `if (!item) continue` after the pop never fires.)
Take(pool) ==
  IF Len(pool) > 0
  THEN [pool |-> SubSeq(pool, 1, Len(pool) - 1),
        slot |-> [pc |-> "access", item |-> <<pool[Len(pool)]>>]]
  ELSE [pool |-> pool, slot |-> [pc |-> "exited", item |-> <<>>]]

NoteTake(hist, w, slot) ==
  IF slot.item = <<>> THEN hist
  ELSE [hist EXCEPT ![slot.item[1].id] = Append(@, w)]

\* Array.from({ length: n }, worker): worker k runs to its first await before worker
\* k + 1 starts.  State after workers k..n have started, from state st.
RECURSIVE StartWorkers(_, _, _)
StartWorkers(k, n, st) ==
  IF k > n THEN st
  ELSE LET t == Take(st.pool)
       IN StartWorkers(k + 1, n, [pool |-> t.pool,
                                  workers |-> Append(st.workers, t.slot),
                                  takenBy |-> NoteTake(st.takenBy, k, t.slot)])

\* if (items.length === 0) return
DownloadMedia_Empty ==
  /\ dl = "start" /\ Len(items) = 0
  /\ dl' = "resolved"
  /\ UNCHANGED <<fetchVars, exportVars, allVars, items, itemsToProcess, completed, failed, total, workers, disk,
                 takenBy, counted, fetched, io, runs>>
  /\ UNCHANGED decVars
  /\ UNCHANGED cmpVars

\* The body of downloadMedia up to await Promise.all(workers).
DownloadMedia_Start ==
  /\ dl = "start" /\ Len(items) # 0
  /\ completed' = 0
  /\ failed' = 0
  /\ total' = Len(items)
  /\ LET st == StartWorkers(1, NumWorkers(items),
                            [pool |-> items, workers |-> <<>>, takenBy |-> takenBy])
     IN /\ itemsToProcess' = st.pool
        /\ workers' = st.workers
        /\ takenBy' = st.takenBy
  /\ dl' = "running"
  /\ UNCHANGED <<fetchVars, exportVars, allVars, items, disk, counted, fetched, io, runs>>
  /\ UNCHANGED decVars
  /\ UNCHANGED cmpVars

\* A worker goes round its loop after counting its task: next task or exit.
LoopAgain(w) ==
  LET t == Take(itemsToProcess)
  IN /\ itemsToProcess' = t.pool
     /\ workers' = [workers EXCEPT ![w] = t.slot]
     /\ takenBy' = NoteTake(takenBy, w, t.slot)

\* A catch block that ends the worker instead of going round the loop.
ContinueAsReturn(w) ==
  /\ workers' = [workers EXCEPT ![w] = [pc |-> "exited", item |-> <<>>]]
  /\ UNCHANGED <<itemsToProcess, takenBy>>

\* `continue` at the end of the catch block: back to the loop head.
Continue(w) == LoopAgain(w)

\* What worker w does to, or learns about, its task.
Note(w, event) == io' = [io EXCEPT ![workers[w].item[1].id] = Append(@, event)]

Completed(w) ==
  /\ completed' = completed + 1
  /\ counted' = [counted EXCEPT ![workers[w].item[1].id] = Append(@, "completed")]
  /\ UNCHANGED failed

\* A catch block without its `continue`: the task is counted as completed too.
FailedThenCompleted(w) ==
  /\ failed' = failed + 1
  /\ completed' = completed + 1
  /\ counted' = [counted EXCEPT ![workers[w].item[1].id] = Append(Append(@, "failed"), "completed")]

Failed(w) ==
  /\ failed' = failed + 1
  /\ counted' = [counted EXCEPT ![workers[w].item[1].id] = Append(@, "failed")]
  /\ UNCHANGED completed

\* A worker that fetches whether or not the destination exists.
Worker_AccessIgnored(w) ==
  /\ dl = "running" /\ workers[w].pc = "access"
  /\ workers' = [workers EXCEPT ![w].pc = "fetch"]
  /\ fetched' = [fetched EXCEPT ![workers[w].item[1].id] = @ + 1]
  /\ io' = [io EXCEPT ![workers[w].item[1].id] =
              IF workers[w].item[1].dest \in disk
              THEN Append(Append(@, "exists"), "fetch") ELSE Append(@, "fetch")]
  /\ UNCHANGED <<itemsToProcess, completed, failed, takenBy, counted>>
  /\ UNCHANGED <<fetchVars, exportVars, allVars, items, dl, total, disk, runs>>
  /\ UNCHANGED decVars
  /\ UNCHANGED cmpVars

\* await fs.access(item.dest) settles: resolved when the destination exists
\* (completed++, next task), rejected otherwise (fetch the URL).
Worker_Access(w) ==
  /\ dl = "running" /\ workers[w].pc = "access"
  /\ IF workers[w].item[1].dest \in disk
     THEN /\ Completed(w)
          /\ LoopAgain(w)
          /\ Note(w, "exists")
          /\ UNCHANGED fetched
     ELSE /\ workers' = [workers EXCEPT ![w].pc = "fetch"]
          /\ fetched' = [fetched EXCEPT ![workers[w].item[1].id] = @ + 1]
          /\ Note(w, "fetch")
          /\ UNCHANGED <<itemsToProcess, completed, failed, takenBy, counted>>
  /\ UNCHANGED <<fetchVars, exportVars, allVars, items, dl, total, disk, runs>>
  /\ UNCHANGED decVars
  /\ UNCHANGED cmpVars

\* await fetch(item.url) resolves with an OK response: read the body.
Worker_FetchOk(w) ==
  /\ dl = "running" /\ workers[w].pc = "fetch"
  /\ workers' = [workers EXCEPT ![w].pc = "body"]
  /\ UNCHANGED <<fetchVars, exportVars, allVars, items, dl, itemsToProcess, completed, failed, total, disk,
                 takenBy, counted, fetched, io, runs>>
  /\ UNCHANGED decVars
  /\ UNCHANGED cmpVars

\* A worker that fetches the URL once more after a failed fetch.
Worker_FetchRetries(w) ==
  /\ dl = "running" /\ workers[w].pc = "fetch"
  /\ IF fetched[workers[w].item[1].id] < 2
     THEN /\ fetched' = [fetched EXCEPT ![workers[w].item[1].id] = @ + 1]
          /\ io' = [io EXCEPT ![workers[w].item[1].id] = Append(Append(@, "fetch failed"), "fetch")]
          /\ UNCHANGED <<itemsToProcess, completed, failed, takenBy, counted, workers>>
     ELSE /\ Failed(w)
          /\ Continue(w)
          /\ Note(w, "fetch failed")
          /\ UNCHANGED fetched
  /\ UNCHANGED <<fetchVars, exportVars, allVars, items, dl, total, disk, runs>>
  /\ UNCHANGED decVars
  /\ UNCHANGED cmpVars

\* A failed fetch that has already created the destination file.
Worker_FetchFailsLeavesFile(w) ==
  /\ dl = "running" /\ workers[w].pc = "fetch"
  /\ disk' = disk \cup {workers[w].item[1].dest}
  /\ Failed(w)
  /\ Continue(w)
  /\ Note(w, "fetch failed")
  /\ UNCHANGED <<fetchVars, exportVars, allVars, items, dl, total, fetched, runs>>
  /\ UNCHANGED decVars
  /\ UNCHANGED cmpVars

\* await fetch(item.url) rejects, or resolves with a non-OK status: failed++.
Worker_FetchFails(w) ==
  /\ dl = "running" /\ workers[w].pc = "fetch"
  /\ Failed(w)
  /\ Continue(w)
  /\ Note(w, "fetch failed")
  /\ UNCHANGED <<fetchVars, exportVars, allVars, items, dl, total, disk, fetched, runs>>
  /\ UNCHANGED decVars
  /\ UNCHANGED cmpVars

\* await response.arrayBuffer() resolves: write the file.
Worker_BodyOk(w) ==
  /\ dl = "running" /\ workers[w].pc = "body"
  /\ workers' = [workers EXCEPT ![w].pc = "write"]
  /\ Note(w, "write")
  /\ UNCHANGED <<fetchVars, exportVars, allVars, items, dl, itemsToProcess, completed, failed, total, disk,
                 takenBy, counted, fetched, runs>>
  /\ UNCHANGED decVars
  /\ UNCHANGED cmpVars

\* A body failure that escapes the worker: its promise rejects, and with it
\* Promise.all and downloadMedia.
Worker_BodyFailsUncaught(w) ==
  /\ dl = "running" /\ workers[w].pc = "body"
  /\ workers' = [workers EXCEPT ![w].pc = "threw"]
  /\ dl' = "rejected"
  /\ Note(w, "body failed")
  /\ UNCHANGED <<itemsToProcess, completed, failed, takenBy, counted>>
  /\ UNCHANGED <<fetchVars, exportVars, allVars, items, total, disk, fetched, runs>>
  /\ UNCHANGED decVars
  /\ UNCHANGED cmpVars

\* await response.arrayBuffer() rejects: failed++.
Worker_BodyFails(w) ==
  /\ dl = "running" /\ workers[w].pc = "body"
  /\ Failed(w)
  /\ Continue(w)
  /\ Note(w, "body failed")
  /\ UNCHANGED <<fetchVars, exportVars, allVars, items, dl, total, disk, fetched, runs>>
  /\ UNCHANGED decVars
  /\ UNCHANGED cmpVars

\* A write that lands somewhere other than item.dest.
Worker_WriteOkElsewhere(w) ==
  /\ dl = "running" /\ workers[w].pc = "write"
  /\ Completed(w)
  /\ LoopAgain(w)
  /\ Note(w, "written")
  /\ UNCHANGED <<fetchVars, exportVars, allVars, items, dl, total, disk, fetched, runs>>
  /\ UNCHANGED decVars
  /\ UNCHANGED cmpVars

\* await fs.writeFile(item.dest, buffer) resolves: completed++.
Worker_WriteOk(w) ==
  /\ dl = "running" /\ workers[w].pc = "write"
  /\ disk' = disk \cup {workers[w].item[1].dest}
  /\ Completed(w)
  /\ LoopAgain(w)
  /\ Note(w, "written")
  /\ UNCHANGED <<fetchVars, exportVars, allVars, items, dl, total, fetched, runs>>
  /\ UNCHANGED decVars
  /\ UNCHANGED cmpVars

\* await fs.writeFile(item.dest, buffer) rejects: failed++ (the file may or may not
\* have been created).
Worker_WriteFails(w) ==
  /\ dl = "running" /\ workers[w].pc = "write"
  /\ \E created \in BOOLEAN :
       disk' = IF created THEN disk \cup {workers[w].item[1].dest} ELSE disk
  /\ Failed(w)
  /\ Continue(w)
  /\ Note(w, "write failed")
  /\ UNCHANGED <<fetchVars, exportVars, allVars, items, dl, total, fetched, runs>>
  /\ UNCHANGED decVars
  /\ UNCHANGED cmpVars

\* await Promise.all(workers) resolves once every worker has returned.
DownloadMedia_Resolve ==
  /\ dl = "running"
  /\ \A w \in DOMAIN workers : workers[w].pc = "exited"
  /\ dl' = "resolved"
  /\ UNCHANGED <<fetchVars, exportVars, allVars, items, itemsToProcess, completed, failed, total, workers, disk,
                 takenBy, counted, fetched, io, runs>>
  /\ UNCHANGED decVars
  /\ UNCHANGED cmpVars

\* downloadMedia is called again with the same task list, the files left as they are.
DownloadMedia_Again ==
  /\ dl = "resolved" /\ Len(runs) + 1 < MaxRuns
  /\ runs' = Append(runs, [completed |-> completed, failed |-> failed, fetched |-> fetched,
                            io |-> io])
  /\ dl' = "start"
  /\ itemsToProcess' = <<>>
  /\ completed' = 0
  /\ failed' = 0
  /\ total' = 0
  /\ workers' = <<>>
  /\ takenBy' = [i \in 1..Len(items) |-> <<>>]
  /\ counted' = [i \in 1..Len(items) |-> <<>>]
  /\ fetched' = [i \in 1..Len(items) |-> 0]
  /\ io' = [i \in 1..Len(items) |-> <<>>]
  /\ UNCHANGED <<fetchVars, exportVars, allVars, items, disk>>
  /\ UNCHANGED decVars
  /\ UNCHANGED cmpVars

\* Task lists: distinct URLs, destinations that may coincide.
TaskLists ==
  UNION {{[i \in 1..n |-> [id |-> i, url |-> i, dest |-> d[i]]] : d \in [1..n -> 1..MaxDests]} :
           n \in 0..MaxTasks}

InitDownload ==
  /\ items \in TaskLists
  /\ disk \in SUBSET {items[i].dest : i \in 1..Len(items)}
  /\ CONFIG \in [QUERY_PAGE_SIZE : {1}, MAX_LIST_PAGE_SIZE : {1},
                 DOWNLOAD_CONCURRENCY : 1..MaxWorkers]
  /\ dl = "start"
  /\ itemsToProcess = <<>>
  /\ completed = 0
  /\ failed = 0
  /\ total = 0
  /\ workers = <<>>
  /\ takenBy = [i \in 1..Len(items) |-> <<>>]
  /\ counted = [i \in 1..Len(items) |-> <<>>]
  /\ fetched = [i \in 1..Len(items) |-> 0]
  /\ io = [i \in 1..Len(items) |-> <<>>]
  /\ runs = <<>>
  /\ entry = NoArgs
  /\ store = [c \in CollectionIds |-> {}]
  /\ faults = 0
  /\ failLog = <<>>
  /\ pc = "idle"
  /\ FetchIdle
  /\ ExportIdle
  /\ AllIdle
  /\ DecodeIdle
  /\ account = NoAccount

NextDownload ==
  \/ DownloadMedia_Empty
  \/ DownloadMedia_Start
  \/ \E w \in DOMAIN workers : Worker_Access(w)
  \/ \E w \in DOMAIN workers : Worker_FetchOk(w)
  \/ \E w \in DOMAIN workers : Worker_FetchFails(w)
  \/ \E w \in DOMAIN workers : Worker_BodyOk(w)
  \/ \E w \in DOMAIN workers : Worker_BodyFails(w)
  \/ \E w \in DOMAIN workers : Worker_WriteOk(w)
  \/ \E w \in DOMAIN workers : Worker_WriteFails(w)
  \/ DownloadMedia_Resolve

NextRuns ==
  \/ NextDownload
  \/ DownloadMedia_Again

SpecDownload == InitDownload /\ [][NextRuns]_vars

\* One call of downloadMedia in which every pending await of every worker
\* settles, one way or the other, and the event loop resumes whoever can run.
WorkerSettles(w) ==
  /\ w \in DOMAIN workers
  /\ \/ Worker_Access(w)
     \/ Worker_FetchOk(w)
     \/ Worker_FetchFails(w)
     \/ Worker_BodyOk(w)
     \/ Worker_BodyFails(w)
     \/ Worker_WriteOk(w)
     \/ Worker_WriteFails(w)

SpecDownloadFair ==
  /\ InitDownload
  /\ [][NextDownload]_vars
  /\ WF_vars(DownloadMedia_Empty)
  /\ WF_vars(DownloadMedia_Start)
  /\ \A w \in 1..MaxWorkers : WF_vars(WorkerSettles(w))
  /\ WF_vars(DownloadMedia_Resolve)


\* ------------------------------------------------------------------ httpGET
EnterHttpGET(st, site, documentPath) ==
  /\ args' = [NoArgs EXCEPT !.fn = "httpGET", !.collectionPath = documentPath]
  /\ documents' = <<>>
  /\ lastDoc' = <<>>
  /\ pageToken' = NoToken
  /\ stack' = Append(st, site)
  /\ pc' = "httpGET.request"

HttpGET_Request ==
  /\ pc = "httpGET.request"
  /\ LET req == Request("get", args.collectionPath)
     IN /\ net' = Append(net, req)
        /\ reqLog' = Append(reqLog, req)
  /\ pc' = "httpGET.await"
  /\ UNCHANGED <<CONFIG, store, faults, failLog, emptyPages, metaRows, entry, stack, args, documents,
                 lastDoc, pageToken, resp, ret, outcome, dlVars, exportVars, allVars>>
  /\ UNCHANGED decVars
  /\ UNCHANGED cmpVars

HttpGET_Response ==
  /\ pc = "httpGET.await" /\ resp # <<>>
  /\ ret' = IF resp[1].ok THEN Returned(resp[1].documents[1])
            ELSE Thrown(HttpError("GET", resp[1]))
  /\ pc' = "resume"
  /\ resp' = <<>>
  /\ UNCHANGED <<CONFIG, store, faults, failLog, emptyPages, metaRows, entry, stack, args, documents,
                 lastDoc, pageToken, net, reqLog, outcome, dlVars, exportVars, allVars>>
  /\ UNCHANGED decVars
  /\ UNCHANGED cmpVars

ProfileDoc == [name |-> 0, createTime |-> 1000, fields |-> [f \in {"ai_name"} |-> 1]]

\* The data source answers a get of the entity's document.
ServerGet ==
  /\ net # <<>> /\ resp = <<>> /\ earlier = <<>>
  /\ Head(net).kind = "get" /\ Head(net).path = Home
  /\ resp' = <<[Response(TRUE) EXCEPT !.documents = << <<ProfileDoc>> >>]>>
  /\ net' = Tail(net)
  /\ UNCHANGED <<CONFIG, store, faults, failLog, emptyPages, metaRows, entry, stack, pc, args,
                 documents, lastDoc, pageToken, reqLog, ret, outcome, dlVars, exportVars, allVars>>
  /\ UNCHANGED decVars
  /\ Recorded

\* ------------------------------------------------- exportKin, exportGroup
\* new Date(createTime).getTime(): createTime in microseconds, the result in
\* milliseconds.
Millis(createTime) == createTime \div 1000

\* Array.prototype.sort with (a, b) => timeA - timeB: stable, ascending.
InsertByTime(sorted, d) ==
  LET k == Cardinality({i \in 1..Len(sorted) :
                          Millis(sorted[i].createTime) <= Millis(d.createTime)})
  IN SubSeq(sorted, 1, k) \o <<d>> \o SubSeq(sorted, k + 1, Len(sorted))

RECURSIVE SortInto(_, _)
SortInto(sorted, docs) ==
  IF docs = <<>> THEN sorted ELSE SortInto(InsertByTime(sorted, Head(docs)), Tail(docs))

sortByCreateTimeAsc(docs) == SortInto(<<>>, docs)

\* id, createTime and fields of each document (decoding is not part of this model).
packDocs(docs) ==
  [i \in 1..Len(docs) |->
     [id |-> docs[i].name, createTime |-> docs[i].createTime, data |-> docs[i].fields]]

\* A URL is <<location, file id>>; the file name is made of the file id alone.
filenameFromUrl(url) == url[2]

\* s.data.url, and v.data.video_url || v.data.url; <<>> when there is none.
SelfieUrl(s) == IF "url" \in DOMAIN s.data THEN s.data.url ELSE <<>>
VideoUrl(v) ==
  IF "video_url" \in DOMAIN v.data /\ v.data.video_url # <<>> THEN v.data.video_url
  ELSE IF "url" \in DOMAIN v.data THEN v.data.url ELSE <<>>

\* outputDir: one directory per entity, named after its name and id.
OutputDir == entry.parentDocPath[Len(entry.parentDocPath)]

\* [...selfiesToDownload, ...videosToDownload]
MediaTasks(selfies, videos) ==
  LET su == SelectSeq([i \in 1..Len(selfies) |-> SelfieUrl(selfies[i])], LAMBDA u : u # <<>>)
      vu == SelectSeq([i \in 1..Len(videos) |-> VideoUrl(videos[i])], LAMBDA u : u # <<>>)
  IN [i \in 1..(Len(su) + Len(vu)) |->
        IF i <= Len(su)
        THEN [id |-> i, url |-> su[i], dest |-> <<OutputDir, "Selfies", filenameFromUrl(su[i])>>]
        ELSE [id |-> i, url |-> vu[i - Len(su)],
              dest |-> <<OutputDir, "Video Selfies", filenameFromUrl(vu[i - Len(su)])>>]]

\* downloadMedia(list) is called.
CallDownloadMedia(list) ==
  /\ items' = list
  /\ dl' = "start"
  /\ takenBy' = [i \in 1..Len(list) |-> <<>>]
  /\ counted' = [i \in 1..Len(list) |-> <<>>]
  /\ fetched' = [i \in 1..Len(list) |-> 0]
  /\ io' = [i \in 1..Len(list) |-> <<>>]
  /\ UNCHANGED <<itemsToProcess, completed, failed, total, workers, disk, runs>>

\* askYesNo puts its question; the answer given updates the last entry.
Ask(question) == prompts' = Append(prompts, [question |-> question, answer |-> ""])
Answer(a) == prompts' = [prompts EXCEPT ![Len(prompts)].answer = a]

\* decodeFields(doc.fields || {}, uid) for each of n documents
PassSecret(n, uid) == decodedWith' = IF n = 0 THEN decodedWith ELSE decodedWith \cup {uid}

\* writeJSON(path, { count, items: packDocs(docs, uid) })
WriteJSON(name, docs) ==
  /\ files' = Append(files, [name |-> name, items |-> packDocs(docs)])
  /\ PassSecret(Len(docs), entry.uid)

AtSite(site) == pc = "resume" /\ stack # <<>> /\ Top(stack) = site

ExportCall ==
  /\ pc = "start" /\ entry.fn \in {"exportKin", "exportGroup"}
  /\ EnterHttpGET(<<"top">>, "export.profile", entry.parentDocPath)
  /\ UNCHANGED <<CONFIG, store, faults, failLog, emptyPages, metaRows, entry, net, resp, reqLog, ret,
                 outcome, dlVars, exportVars, allVars>>
  /\ UNCHANGED decVars
  /\ UNCHANGED cmpVars

\* A first step that goes on to the chat messages without writing its file.
Export_ProfileUnwritten ==
  /\ AtSite("export.profile") /\ ret.kind = "value"
  /\ UNCHANGED <<files, decodedWith>>
  /\ EnterRunQueryAll(Pop(stack), "export.chat.try", entry.parentDocPath, "ChatMessages",
                      "timestamp")
  /\ ret' = NoResult
  /\ UNCHANGED <<CONFIG, store, faults, failLog, emptyPages, metaRows, entry, net, resp, reqLog,
                 outcome, dlVars, packedSelfies, packedVideoSelfies, prompts, bulkVars>>
  /\ UNCHANGED decVars
  /\ UNCHANGED cmpVars

\* profile.json is written; the chat messages are queried.
Export_Profile ==
  /\ AtSite("export.profile") /\ ret.kind = "value"
  /\ WriteJSON("profile.json", ret.docs)
  /\ EnterRunQueryAll(Pop(stack), "export.chat.try", entry.parentDocPath, "ChatMessages",
                      "timestamp")
  /\ ret' = NoResult
  /\ UNCHANGED <<CONFIG, store, faults, failLog, emptyPages, metaRows, entry, net, resp, reqLog,
                 outcome, dlVars, packedSelfies, packedVideoSelfies, prompts, bulkVars>>
  /\ UNCHANGED decVars
  /\ UNCHANGED cmpVars

\* catch (e) around the chat query: whatever e is, the chat messages are listed.
Export_ChatCatch ==
  /\ AtSite("export.chat.try") /\ ret.kind = "throw"
  /\ EnterListAll(Pop(stack), "export.chat.catch",
                  Append(entry.parentDocPath, "ChatMessages"), "timestamp asc,__name__ asc")
  /\ ret' = NoResult
  /\ UNCHANGED <<CONFIG, store, faults, failLog, emptyPages, metaRows, entry, net, resp, reqLog,
                 outcome, dlVars, exportVars, allVars>>
  /\ UNCHANGED decVars
  /\ UNCHANGED cmpVars

\* chat_messages.json is written; the pinned messages are listed.
Export_Chat ==
  /\ (AtSite("export.chat.try") \/ AtSite("export.chat.catch")) /\ ret.kind = "value"
  /\ WriteJSON("chat_messages.json", ret.docs)
  /\ EnterListAll(Pop(stack), "export.pinned",
                  Append(entry.parentDocPath, "PinnedMessages"), "")
  /\ ret' = NoResult
  /\ UNCHANGED <<CONFIG, store, faults, failLog, emptyPages, metaRows, entry, net, resp, reqLog,
                 outcome, dlVars, packedSelfies, packedVideoSelfies, prompts, bulkVars>>
  /\ UNCHANGED decVars
  /\ UNCHANGED cmpVars

\* exportKin: pinned_messages.json is written, sorted; the journal is fetched.
ExportKin_Pinned ==
  /\ entry.fn = "exportKin"
  /\ AtSite("export.pinned") /\ ret.kind = "value"
  /\ WriteJSON("pinned_messages.json", sortByCreateTimeAsc(ret.docs))
  /\ EnterFetchJournalAll(Pop(stack), "export.journal", entry.parentDocPath, "JournalV3")
  /\ ret' = NoResult
  /\ UNCHANGED <<CONFIG, store, faults, failLog, emptyPages, metaRows, entry, net, resp, reqLog,
                 outcome, dlVars, packedSelfies, packedVideoSelfies, prompts, bulkVars>>
  /\ UNCHANGED decVars
  /\ UNCHANGED cmpVars

\* exportGroup: pinned_messages.json is written, sorted; the export returns.
ExportGroup_Pinned ==
  /\ entry.fn = "exportGroup"
  /\ AtSite("export.pinned") /\ ret.kind = "value"
  /\ WriteJSON("pinned_messages.json", sortByCreateTimeAsc(ret.docs))
  /\ stack' = Pop(stack)
  /\ ret' = Returned(<<>>)
  /\ UNCHANGED <<CONFIG, store, faults, failLog, emptyPages, metaRows, entry, pc, args, documents,
                 lastDoc, pageToken, net, resp, reqLog, outcome, dlVars, packedSelfies,
                 packedVideoSelfies, prompts, bulkVars>>
  /\ UNCHANGED decVars
  /\ UNCHANGED cmpVars

\* journal.json is written; the selfies are listed.
ExportKin_Journal ==
  /\ AtSite("export.journal") /\ ret.kind = "value"
  /\ WriteJSON("journal.json", ret.docs)
  /\ EnterListAll(Pop(stack), "export.selfies",
                  Append(entry.parentDocPath, "Selfies"), "timestamp asc,__name__ asc")
  /\ ret' = NoResult
  /\ UNCHANGED <<CONFIG, store, faults, failLog, emptyPages, metaRows, entry, net, resp, reqLog,
                 outcome, dlVars, packedSelfies, packedVideoSelfies, prompts, bulkVars>>
  /\ UNCHANGED decVars
  /\ UNCHANGED cmpVars

\* selfies.json is written; the video selfies are listed.
ExportKin_Selfies ==
  /\ AtSite("export.selfies") /\ ret.kind = "value"
  /\ packedSelfies' = packDocs(ret.docs)
  /\ WriteJSON("selfies.json", ret.docs)
  /\ EnterListAll(Pop(stack), "export.videos",
                  Append(entry.parentDocPath, "VideoSelfies"), "timestamp asc,__name__ asc")
  /\ ret' = NoResult
  /\ UNCHANGED <<CONFIG, store, faults, failLog, emptyPages, metaRows, entry, net, resp, reqLog,
                 outcome, dlVars, packedVideoSelfies, prompts, bulkVars>>
  /\ UNCHANGED decVars
  /\ UNCHANGED cmpVars

\* exportKin of version 1.1.0: video_selfies.json is written and the export returns.
ExportKinV110_Videos ==
  /\ version = "1.1.0"
  /\ entry.fn = "exportKin"
  /\ AtSite("export.videos") /\ ret.kind = "value"
  /\ WriteJSON("video_selfies.json", ret.docs)
  /\ stack' = Pop(stack)
  /\ ret' = Returned(<<>>)
  /\ UNCHANGED <<CONFIG, store, faults, failLog, emptyPages, metaRows, entry, pc, args,
                 documents, lastDoc, pageToken, net, resp, reqLog, outcome, dlVars,
                 packedSelfies, packedVideoSelfies, prompts, bulkVars>>
  /\ UNCHANGED decVars
  /\ UNCHANGED cmpVars

\* A video step that writes the packed selfies into video_selfies.json.
ExportKin_VideosWritesSelfies ==
  /\ version = "1.3.0"
  /\ AtSite("export.videos") /\ ret.kind = "value"
  /\ packedVideoSelfies' = packDocs(ret.docs)
  /\ files' = Append(files, [name |-> "video_selfies.json", items |-> packedSelfies])
  /\ PassSecret(Len(ret.docs), entry.uid)
  /\ stack' = Append(Pop(stack), "export.media")
  /\ ret' = NoResult
  /\ IF entry.forceDownloadMedia
     THEN /\ CallDownloadMedia(MediaTasks(packedSelfies, packDocs(ret.docs)))
          /\ pc' = "downloadMedia.await"
          /\ UNCHANGED prompts
     ELSE /\ pc' = "askYesNo.await"
          /\ Ask("media")
          /\ UNCHANGED dlVars
  /\ UNCHANGED <<CONFIG, store, faults, failLog, emptyPages, metaRows, entry, args, documents, lastDoc,
                 pageToken, net, resp, reqLog, outcome, packedSelfies, bulkVars>>
  /\ UNCHANGED decVars
  /\ UNCHANGED cmpVars

\* video_selfies.json is written; with forceDownloadMedia the media download starts,
\* otherwise the user is asked.
ExportKin_Videos ==
  /\ version = "1.3.0"
  /\ AtSite("export.videos") /\ ret.kind = "value"
  /\ packedVideoSelfies' = packDocs(ret.docs)
  /\ WriteJSON("video_selfies.json", ret.docs)
  /\ stack' = Append(Pop(stack), "export.media")
  /\ ret' = NoResult
  /\ IF entry.forceDownloadMedia
     THEN /\ CallDownloadMedia(MediaTasks(packedSelfies, packDocs(ret.docs)))
          /\ pc' = "downloadMedia.await"
          /\ UNCHANGED prompts
     ELSE /\ pc' = "askYesNo.await"
          /\ Ask("media")
          /\ UNCHANGED dlVars
  /\ UNCHANGED <<CONFIG, store, faults, failLog, emptyPages, metaRows, entry, args, documents, lastDoc,
                 pageToken, net, resp, reqLog, outcome, packedSelfies, bulkVars>>
  /\ UNCHANGED decVars
  /\ UNCHANGED cmpVars

\* The user answers y or yes: the media download starts.
ExportKin_AnswerYes ==
  /\ pc = "askYesNo.await"
  /\ Answer("yes")
  /\ CallDownloadMedia(MediaTasks(packedSelfies, packedVideoSelfies))
  /\ pc' = "downloadMedia.await"
  /\ UNCHANGED <<CONFIG, store, faults, failLog, emptyPages, metaRows, entry, stack, args, documents,
                 lastDoc, pageToken, net, resp, reqLog, ret, outcome, files, packedSelfies,
                 packedVideoSelfies, allVars>>
  /\ UNCHANGED decVars
  /\ UNCHANGED cmpVars

\* An answer that is read and not acted on: the media download starts all the same.
ExportKin_AnswerIgnored ==
  /\ pc = "askYesNo.await"
  /\ \E a \in {"no", "esc"} : Answer(a)
  /\ CallDownloadMedia(MediaTasks(packedSelfies, packedVideoSelfies))
  /\ pc' = "downloadMedia.await"
  /\ UNCHANGED <<CONFIG, store, faults, failLog, emptyPages, metaRows, entry, stack, args, documents,
                 lastDoc, pageToken, net, resp, reqLog, ret, outcome, files, packedSelfies,
                 packedVideoSelfies, allVars>>
  /\ UNCHANGED decVars
  /\ UNCHANGED cmpVars

\* The user answers n or no, or presses Esc: exportKin returns.
ExportKin_AnswerNo ==
  /\ pc = "askYesNo.await"
  /\ \E a \in {"no", "esc"} : Answer(a)
  /\ pc' = "resume"
  /\ stack' = Pop(stack)
  /\ ret' = Returned(<<>>)
  /\ UNCHANGED <<CONFIG, store, faults, failLog, emptyPages, metaRows, entry, args, documents, lastDoc,
                 pageToken, net, resp, reqLog, outcome, dlVars, files, packedSelfies,
                 packedVideoSelfies, allVars>>
  /\ UNCHANGED decVars
  /\ UNCHANGED cmpVars

\* askYesNo: any other line is no answer, the question is put again.
AskYesNo_Again ==
  /\ pc \in {"askYesNo.await", "confirm.await"}
  /\ Len(prompts) < MaxPrompts
  /\ prompts' = Append([prompts EXCEPT ![Len(prompts)].answer = "other"],
                       [question |-> prompts[Len(prompts)].question, answer |-> ""])
  /\ UNCHANGED <<fetchVars, dlVars, files, packedSelfies, packedVideoSelfies, allVars>>
  /\ UNCHANGED decVars
  /\ UNCHANGED cmpVars

\* await downloadMedia(...) resolves: exportKin returns.
ExportKin_MediaDone ==
  /\ pc = "downloadMedia.await" /\ dl = "resolved"
  /\ pc' = "resume"
  /\ stack' = Pop(stack)
  /\ ret' = Returned(<<>>)
  /\ UNCHANGED <<CONFIG, store, faults, failLog, emptyPages, metaRows, entry, args, documents, lastDoc,
                 pageToken, net, resp, reqLog, outcome, dlVars, exportVars, allVars>>
  /\ UNCHANGED decVars
  /\ UNCHANGED cmpVars

\* An export that removes what it has written when a step fails.
Export_ThrowRollsBack ==
  /\ \E site \in {"export.profile", "export.chat.catch", "export.pinned", "export.journal",
                  "export.selfies", "export.videos"} : AtSite(site)
  /\ ret.kind = "throw"
  /\ stack' = Pop(stack)
  /\ files' = <<>>
  /\ UNCHANGED <<CONFIG, store, faults, failLog, emptyPages, metaRows, entry, pc, args, documents,
                 lastDoc, pageToken, net, resp, reqLog, ret, outcome, dlVars, packedSelfies,
                 packedVideoSelfies, prompts, allVars>>
  /\ UNCHANGED decVars
  /\ UNCHANGED cmpVars

\* An error outside the chat try block leaves the export.
Export_Throw ==
  /\ \E site \in {"export.profile", "export.chat.catch", "export.pinned", "export.journal",
                  "export.selfies", "export.videos"} : AtSite(site)
  /\ ret.kind = "throw"
  /\ stack' = Pop(stack)
  /\ UNCHANGED <<CONFIG, store, faults, failLog, emptyPages, metaRows, entry, pc, args, documents,
                 lastDoc, pageToken, net, resp, reqLog, ret, outcome, dlVars, exportVars, allVars>>
  /\ UNCHANGED decVars
  /\ UNCHANGED cmpVars

CreateTimes == {1000, 1400, 2000}

ExportDocs(c, k, ct) ==
  {[name |-> i,
    createTime |-> IF c = "PinnedMessages" THEN ct[i] ELSE 1000,
    fields |-> IF c = "Selfies" THEN [timestamp |-> 1, url |-> <<"selfies", i>>]
               ELSE IF c = "VideoSelfies" THEN [timestamp |-> 1, video_url |-> <<"videos", i>>]
               ELSE [f \in {FieldOfCollection[c]} |-> 1]] : i \in 1..k}

\* Every collection of the entity holds k documents.
ExportStores ==
  UNION {{[c \in CollectionIds |-> ExportDocs(c, k, ct)] : ct \in [1..k -> CreateTimes]} :
           k \in 0..MaxExportDocs}

ExportEntries ==
  { [NoArgs EXCEPT !.fn = "exportKin", !.parentDocPath = KinPath, !.uid = user_id],
    [NoArgs EXCEPT !.fn = "exportKin", !.parentDocPath = KinPath, !.uid = user_id,
                   !.forceDownloadMedia = TRUE],
    [NoArgs EXCEPT !.fn = "exportGroup", !.parentDocPath = GroupPath, !.uid = user_id] }

InitExport ==
  /\ entry \in ExportEntries
  /\ store \in ExportStores
  /\ CONFIG = [QUERY_PAGE_SIZE |-> MaxPage, MAX_LIST_PAGE_SIZE |-> MaxPage,
               DOWNLOAD_CONCURRENCY |-> MaxWorkers]
  /\ faults = MaxFaults
  /\ failLog = <<>>
  /\ pc = "start"
  /\ FetchIdle
  /\ DownloadIdle
  /\ ExportIdle
  /\ AllIdle
  /\ DecodeIdle
  /\ account = NoAccount

NextExport ==
  \/ ExportCall
  \/ HttpGET_Request
  \/ HttpGET_Response
  \/ ServerGet
  \/ Export_Profile
  \/ Export_ChatCatch
  \/ Export_Chat
  \/ ExportKin_Pinned
  \/ ExportGroup_Pinned
  \/ ExportKin_Journal
  \/ ExportKin_Selfies
  \/ ExportKin_Videos
  \/ ExportKin_AnswerYes
  \/ ExportKin_AnswerNo
  \/ AskYesNo_Again
  \/ ExportKin_MediaDone
  \/ Export_Throw
  \/ ListAll_Request
  \/ ListAll_Response
  \/ RunQueryAll_Request
  \/ RunQueryAll_Response
  \/ ServerFails
  \/ ServerRunQuery
  \/ ServerList
  \/ FetchJournalAll_Return
  \/ FetchJournalAll_Fallback
  \/ FetchJournalAll_Rethrow
  \/ FetchJournalAll_FallbackDone
  \/ Finish
  \/ NextDownload

SpecExport == InitExport /\ [][NextExport]_vars

\* ---- an export of an entity that has pinned messages only, without failures
PinnedDocs(ct) ==
  {[name |-> i, createTime |-> ct[i],
    fields |-> [f \in {FieldOfCollection["PinnedMessages"]} |-> 1]] : i \in DOMAIN ct}

PinnedStores ==
  {[c \in CollectionIds |-> IF c = "PinnedMessages" THEN PinnedDocs(ct) ELSE {}] :
     ct \in UNION {[1..n -> CreateTimes] : n \in 0..MaxPinned}}

InitPinned ==
  /\ entry \in ExportEntries
  /\ store \in PinnedStores
  /\ CONFIG = [QUERY_PAGE_SIZE |-> MaxPage, MAX_LIST_PAGE_SIZE |-> MaxPage,
               DOWNLOAD_CONCURRENCY |-> 1]
  /\ faults = 0
  /\ failLog = <<>>
  /\ pc = "start"
  /\ FetchIdle
  /\ DownloadIdle
  /\ ExportIdle
  /\ AllIdle
  /\ DecodeIdle
  /\ account = NoAccount

NextPinned ==
  \/ ExportCall
  \/ HttpGET_Request
  \/ HttpGET_Response
  \/ ServerGet
  \/ Export_Profile
  \/ Export_Chat
  \/ ExportKin_Pinned
  \/ ExportGroup_Pinned
  \/ ExportKin_Journal
  \/ ExportKin_Selfies
  \/ ExportKin_Videos
  \/ ExportKin_AnswerYes
  \/ ExportKin_AnswerNo
  \/ AskYesNo_Again
  \/ DownloadMedia_Empty
  \/ ExportKin_MediaDone
  \/ ListAll_Request
  \/ ListAll_Response
  \/ RunQueryAll_Request
  \/ RunQueryAll_Response
  \/ ServerRunQuery
  \/ ServerList
  \/ FetchJournalAll_Return
  \/ Finish

SpecPinned == InitPinned /\ [][NextPinned]_vars

\* ---------------------------------------- handleExportAll, the Global Journal
\* The frame of a finished downloadMedia call is gone; the files stay.
ForgetDownload ==
  /\ items' = <<>>
  /\ dl' = "idle"
  /\ itemsToProcess' = <<>>
  /\ completed' = 0
  /\ failed' = 0
  /\ total' = 0
  /\ workers' = <<>>
  /\ takenBy' = <<>>
  /\ counted' = <<>>
  /\ fetched' = <<>>
  /\ io' = <<>>
  /\ UNCHANGED <<disk, runs>>

\* The exports so far, the one that has just settled marked with how it did.
Settled ==
  IF calls # <<>> /\ calls[Len(calls)].result = ""
  THEN [calls EXCEPT ![Len(calls)].result = IF ret.kind = "throw" THEN "thrown" ELSE "returned"]
  ELSE calls

\* exportKin(uid, headers, kin, { forceDownloadMedia: true }) or
\* exportGroup(uid, headers, group), called at loop position k.
CallExportWithId(site, fn, path, k) ==
  /\ entry' = [NoArgs EXCEPT !.fn = fn, !.parentDocPath = path,
                             !.forceDownloadMedia = (fn = "exportKin"),
                             !.uid = path[Len(path)]]
  /\ EnterHttpGET(<<site>>, "export.profile", path)
  /\ calls' = Append(Settled, [fn |-> fn, id |-> path[Len(path)], result |-> ""])
  /\ at' = k
  /\ packedSelfies' = <<>>
  /\ packedVideoSelfies' = <<>>
  /\ ForgetDownload
  /\ ret' = NoResult
  /\ UNCHANGED <<files, prompts>>

CallExport(site, fn, path, k) ==
  /\ entry' = [NoArgs EXCEPT !.fn = fn, !.parentDocPath = path,
                             !.forceDownloadMedia = (fn = "exportKin"),
                             !.uid = entry.uid]
  /\ EnterHttpGET(<<site>>, "export.profile", path)
  /\ calls' = Append(Settled, [fn |-> fn, id |-> path[Len(path)], result |-> ""])
  /\ at' = k
  /\ packedSelfies' = <<>>
  /\ packedVideoSelfies' = <<>>
  /\ ForgetDownload
  /\ ret' = NoResult
  /\ UNCHANGED <<files, prompts>>

\* listAll(`Users/${uid}/Groups`, headers)
CallListGroups ==
  /\ EnterListAll(<<>>, "all.groups", Append(UserPath, "Groups"), "")
  /\ ret' = NoResult
  /\ calls' = Settled
  /\ UNCHANGED <<entry, at, exportVars, dlVars>>

\* handleGlobalJournalMenu(uid, headers): the try block calls fetchJournalAll.
CallGlobalJournal(st) ==
  /\ entry' = [NoArgs EXCEPT !.fn = "handleGlobalJournalMenu", !.parentDocPath = UserPath,
                             !.uid = entry.uid]
  /\ EnterFetchJournalAll(st, "journal.try", UserPath, "GlobalJournalV3")
  /\ calls' = Append(Settled, [fn |-> "handleGlobalJournalMenu", id |-> "GlobalJournalV3",
                               result |-> ""])
  /\ ret' = NoResult
  /\ ForgetDownload
  /\ UNCHANGED <<at, exportVars>>

\* console.error in a catch block around the export under way.
LogError ==
  logged' = Append(logged, [fn |-> entry.fn, id |-> calls[Len(calls)].id, error |-> ret.error])

\* handleExportAll is called: askYesNo puts the question.
HandleExportAll_Call ==
  /\ pc = "start" /\ entry.fn = "handleExportAll"
  /\ pc' = "confirm.await"
  /\ Ask("confirm")
  /\ UNCHANGED <<CONFIG, store, faults, failLog, emptyPages, metaRows, entry, stack, args, documents,
                 lastDoc, pageToken, net, resp, reqLog, ret, outcome, dlVars, files,
                 packedSelfies, packedVideoSelfies, allVars>>
  /\ UNCHANGED decVars
  /\ UNCHANGED cmpVars

\* An export that goes ahead whatever the answer.
HandleExportAll_CancelIgnored ==
  /\ pc = "confirm.await"
  /\ \E a \in {"no", "esc"} : Answer(a)
  /\ EnterListAll(<<>>, "all.kins", Append(UserPath, "AIs"), "")
  /\ UNCHANGED <<CONFIG, store, faults, failLog, emptyPages, metaRows, entry, net, resp, reqLog, ret,
                 outcome, dlVars, files, packedSelfies, packedVideoSelfies, allVars>>
  /\ UNCHANGED decVars
  /\ UNCHANGED cmpVars

\* if (!doContinue) return
HandleExportAll_Cancel ==
  /\ pc = "confirm.await"
  /\ \E a \in {"no", "esc"} : Answer(a)
  /\ outcome' = Returned(<<>>)
  /\ pc' = "done"
  /\ UNCHANGED <<CONFIG, store, faults, failLog, emptyPages, metaRows, entry, stack, args, documents,
                 lastDoc, pageToken, net, resp, reqLog, ret, dlVars, files, packedSelfies,
                 packedVideoSelfies, allVars>>
  /\ UNCHANGED decVars
  /\ UNCHANGED cmpVars

\* The user confirms: the Kins are listed.
HandleExportAll_Confirm ==
  /\ pc = "confirm.await"
  /\ Answer("yes")
  /\ EnterListAll(<<>>, "all.kins", Append(UserPath, "AIs"), "")
  /\ UNCHANGED <<CONFIG, store, faults, failLog, emptyPages, metaRows, entry, net, resp, reqLog, ret,
                 outcome, dlVars, files, packedSelfies, packedVideoSelfies, allVars>>
  /\ UNCHANGED decVars
  /\ UNCHANGED cmpVars

\* The Kins are listed: the first one is exported, or the Group Chats are listed.
HandleExportAll_Kins ==
  /\ AtSite("all.kins") /\ ret.kind = "value"
  /\ kins' = [i \in 1..Len(ret.docs) |-> KinIds[ret.docs[i].name]]
  /\ IF ret.docs # <<>>
     THEN CallExport("all.kin", "exportKin", UserPath \o <<"AIs", KinIds[ret.docs[1].name]>>, 1)
     ELSE CallListGroups
  /\ PassSecret(Len(ret.docs), entry.uid)
  /\ UNCHANGED <<CONFIG, store, faults, failLog, emptyPages, metaRows, net, resp, reqLog, outcome,
                 account, groups, logged>>
  /\ UNCHANGED decVars
  /\ UNCHANGED cmpVars

\* A loop over the Kins without its try block: the error leaves handleExportAll.
HandleExportAll_KinDoneUncaught ==
  /\ pc = "resume" /\ stack = <<"all.kin">>
  /\ IF ret.kind = "throw"
     THEN /\ outcome' = ret
          /\ pc' = "done"
          /\ stack' = <<>>
          /\ calls' = Settled
          /\ UNCHANGED <<entry, args, documents, lastDoc, pageToken, ret, dlVars, exportVars, at>>
     ELSE IF at < Len(kins)
     THEN CallExport("all.kin", "exportKin", UserPath \o <<"AIs", kins[at + 1]>>, at + 1)
          /\ UNCHANGED outcome
     ELSE CallListGroups /\ UNCHANGED outcome
  /\ UNCHANGED <<CONFIG, store, faults, failLog, emptyPages, metaRows, net, resp, reqLog,
                 account, kins, groups, logged, decodedWith>>
  /\ UNCHANGED decVars
  /\ UNCHANGED cmpVars

\* exportKin settled: an error is caught and logged; the next Kin is exported, or the
\* Group Chats are listed.
HandleExportAll_KinDone ==
  /\ pc = "resume" /\ stack = <<"all.kin">>
  /\ IF ret.kind = "throw" THEN LogError ELSE UNCHANGED logged
  /\ IF at < Len(kins)
     THEN CallExport("all.kin", "exportKin", UserPath \o <<"AIs", kins[at + 1]>>, at + 1)
     ELSE CallListGroups
  /\ UNCHANGED <<CONFIG, store, faults, failLog, emptyPages, metaRows, net, resp, reqLog, outcome,
                 account, kins, groups, decodedWith>>
  /\ UNCHANGED decVars
  /\ UNCHANGED cmpVars

\* The Group Chats are listed: the first one is exported, or the Global Journal is.
HandleExportAll_Groups ==
  /\ AtSite("all.groups") /\ ret.kind = "value"
  /\ groups' = [i \in 1..Len(ret.docs) |-> GroupIds[ret.docs[i].name]]
  /\ IF ret.docs # <<>>
     THEN CallExport("all.group", "exportGroup",
                     UserPath \o <<"Groups", GroupIds[ret.docs[1].name]>>, 1)
     ELSE CallGlobalJournal(<<"all.journal">>)
  /\ PassSecret(Len(ret.docs), entry.uid)
  /\ UNCHANGED <<CONFIG, store, faults, failLog, emptyPages, metaRows, net, resp, reqLog, outcome,
                 account, kins, logged>>
  /\ UNCHANGED decVars
  /\ UNCHANGED cmpVars

\* A loop over the Group Chats without its try block: the error leaves
\* handleExportAll.
HandleExportAll_GroupDoneUncaught ==
  /\ pc = "resume" /\ stack = <<"all.group">>
  /\ IF ret.kind = "throw"
     THEN /\ outcome' = ret
          /\ pc' = "done"
          /\ stack' = <<>>
          /\ calls' = Settled
          /\ UNCHANGED <<entry, args, documents, lastDoc, pageToken, ret, dlVars, exportVars, at>>
     ELSE IF at < Len(groups)
     THEN CallExport("all.group", "exportGroup",
                     UserPath \o <<"Groups", groups[at + 1]>>, at + 1)
          /\ UNCHANGED outcome
     ELSE CallGlobalJournal(<<"all.journal">>) /\ UNCHANGED outcome
  /\ UNCHANGED <<CONFIG, store, faults, failLog, emptyPages, metaRows, net, resp, reqLog,
                 account, kins, groups, logged, decodedWith>>
  /\ UNCHANGED decVars
  /\ UNCHANGED cmpVars

\* exportGroup settled: an error is caught and logged; the next Group Chat is exported,
\* or the Global Journal is.
HandleExportAll_GroupDone ==
  /\ pc = "resume" /\ stack = <<"all.group">>
  /\ IF ret.kind = "throw" THEN LogError ELSE UNCHANGED logged
  /\ IF at < Len(groups)
     THEN CallExport("all.group", "exportGroup",
                     UserPath \o <<"Groups", groups[at + 1]>>, at + 1)
     ELSE CallGlobalJournal(<<"all.journal">>)
  /\ UNCHANGED <<CONFIG, store, faults, failLog, emptyPages, metaRows, net, resp, reqLog, outcome,
                 account, kins, groups, decodedWith>>
  /\ UNCHANGED decVars
  /\ UNCHANGED cmpVars

\* The Global Journal menu entry is chosen.
CallGlobalJournalMenu ==
  /\ pc = "start" /\ entry.fn = "handleGlobalJournalMenu"
  /\ CallGlobalJournal(<<"top">>)
  /\ UNCHANGED <<CONFIG, store, faults, failLog, emptyPages, metaRows, net, resp, reqLog, outcome,
                 account, kins, groups, logged, decodedWith>>
  /\ UNCHANGED decVars
  /\ UNCHANGED cmpVars

\* handleGlobalJournalMenu: global_journal.json is written, or the error is caught
\* and logged; either way it returns.
GlobalJournal_Done ==
  /\ AtSite("journal.try")
  /\ IF ret.kind = "value"
     THEN WriteJSON("global_journal.json", ret.docs) /\ UNCHANGED logged
     ELSE LogError /\ UNCHANGED <<files, decodedWith>>
  /\ stack' = Pop(stack)
  /\ ret' = Returned(<<>>)
  /\ calls' = Settled
  /\ UNCHANGED <<CONFIG, store, faults, failLog, emptyPages, metaRows, entry, pc, args, documents,
                 lastDoc, pageToken, net, resp, reqLog, outcome, dlVars, packedSelfies,
                 packedVideoSelfies, prompts, account, kins, groups, at>>
  /\ UNCHANGED decVars
  /\ UNCHANGED cmpVars

\* handleExportAll returns after the Global Journal.
HandleExportAll_Finish ==
  /\ pc = "resume" /\ stack = <<"all.journal">>
  /\ outcome' = ret
  /\ stack' = <<>>
  /\ pc' = "done"
  /\ UNCHANGED <<CONFIG, store, faults, failLog, emptyPages, metaRows, entry, args, documents, lastDoc,
                 pageToken, net, resp, reqLog, ret, dlVars, exportVars, allVars>>
  /\ UNCHANGED decVars
  /\ UNCHANGED cmpVars

\* An error of one of the two listings leaves handleExportAll.
HandleExportAll_Throw ==
  /\ (AtSite("all.kins") \/ AtSite("all.groups")) /\ ret.kind = "throw"
  /\ outcome' = ret
  /\ stack' = <<>>
  /\ pc' = "done"
  /\ UNCHANGED <<CONFIG, store, faults, failLog, emptyPages, metaRows, entry, args, documents, lastDoc,
                 pageToken, net, resp, reqLog, ret, dlVars, exportVars, allVars>>
  /\ UNCHANGED decVars
  /\ UNCHANGED cmpVars

AccountDocs(field, n) ==
  {[name |-> i, createTime |-> 1000, fields |-> [f \in {field} |-> i]] : i \in 1..n}

Accounts ==
  {[AIs |-> AccountDocs("ai_name", k), Groups |-> AccountDocs("name", g),
    GlobalJournalV3 |-> AccountDocs("created", MaxExportDocs)] :
     k \in 0..MaxKins, g \in 0..MaxGroups}

\* In an Export All every collection of every entity holds MaxExportDocs documents;
\* the listings come in full pages and the downloads run one at a time.
InitExportAll ==
  /\ entry \in ExportEntries \cup
               { [NoArgs EXCEPT !.fn = "handleExportAll", !.uid = user_id],
                 [NoArgs EXCEPT !.fn = "handleGlobalJournalMenu", !.parentDocPath = UserPath,
                                !.uid = user_id] }
  /\ store \in IF entry.fn = "handleExportAll"
               THEN {[c \in CollectionIds |->
                        ExportDocs(c, MaxExportDocs, [i \in 1..MaxExportDocs |-> 1000])]}
               ELSE ExportStores
  /\ account \in IF entry.fn = "handleExportAll" THEN Accounts
                 ELSE IF entry.fn = "handleGlobalJournalMenu" THEN {CHOOSE a \in Accounts : TRUE}
                 ELSE {NoAccount}
  /\ CONFIG = [QUERY_PAGE_SIZE |-> MaxPage, MAX_LIST_PAGE_SIZE |-> MaxPage,
               DOWNLOAD_CONCURRENCY |-> 1]
  /\ faults = MaxBulkFaults
  /\ failLog = <<>>
  /\ pc = "start"
  /\ emptyPages = MaxEmptyPages
  /\ metaRows = MaxMetaRows
  /\ stack = <<>>
  /\ args = NoArgs
  /\ documents = <<>>
  /\ lastDoc = <<>>
  /\ pageToken = NoToken
  /\ net = <<>>
  /\ resp = <<>>
  /\ reqLog = <<>>
  /\ ret = NoResult
  /\ outcome = NoResult
  /\ DownloadIdle
  /\ ExportIdle
  /\ AllIdle
  /\ DecodeIdle

NextExportAll ==
  \/ NextExport
  \/ HandleExportAll_Call
  \/ HandleExportAll_Cancel
  \/ HandleExportAll_Confirm
  \/ HandleExportAll_Kins
  \/ HandleExportAll_KinDone
  \/ HandleExportAll_Groups
  \/ HandleExportAll_GroupDone
  \/ CallGlobalJournalMenu
  \/ GlobalJournal_Done
  \/ HandleExportAll_Finish
  \/ HandleExportAll_Throw

SpecExportAll == InitExportAll /\ [][NextExportAll]_vars


\* ---- version 1.1.0 and version 1.3.0 against the same responses
\* The data source gives version 1.3.0 the response it gave to the request of
\* the same position when version 1.1.0 ran.
ServerReplays ==
  /\ net # <<>> /\ resp = <<>> /\ earlier # <<>>
  /\ LET i == Len(reqLog) - Len(net) + 1
     IN /\ i <= Len(responses)
        /\ resp' = <<responses[i]>>
        /\ failLog' = IF responses[i].ok THEN failLog
                      ELSE Append(failLog, [index |-> i, kind |-> Head(net).kind,
                                            net |-> responses[i].net,
                                            status |-> responses[i].status,
                                            body |-> responses[i].body])
  /\ net' = Tail(net)
  /\ UNCHANGED <<CONFIG, store, faults, emptyPages, metaRows, entry, stack, pc, args, documents,
                 lastDoc, pageToken, reqLog, ret, outcome, dlVars, exportVars, allVars>>
  /\ UNCHANGED decVars
  /\ UNCHANGED cmpVars

\* Version 1.1.0 has finished: what it did is kept, and version 1.3.0 is given
\* the same call, from the same start.
RunNewVersion ==
  /\ pc = "done" /\ version = "1.1.0"
  /\ earlier' = <<[reqLog |-> reqLog, files |-> files, outcome |-> outcome]>>
  /\ version' = "1.3.0"
  /\ pc' = "start"
  /\ stack' = <<>>
  /\ args' = NoArgs
  /\ documents' = <<>>
  /\ lastDoc' = <<>>
  /\ pageToken' = NoToken
  /\ net' = <<>>
  /\ resp' = <<>>
  /\ reqLog' = <<>>
  /\ failLog' = <<>>
  /\ ret' = NoResult
  /\ outcome' = NoResult
  /\ files' = <<>>
  /\ packedSelfies' = <<>>
  /\ packedVideoSelfies' = <<>>
  /\ prompts' = <<>>
  /\ calls' = <<>>
  /\ logged' = <<>>
  /\ decodedWith' = {}
  /\ UNCHANGED <<CONFIG, store, faults, emptyPages, metaRows, entry, dlVars, account, kins,
                 groups, at, responses>>
  /\ UNCHANGED decVars

InitVersions ==
  /\ entry \in { [NoArgs EXCEPT !.fn = "exportKin", !.parentDocPath = KinPath, !.uid = user_id],
                 [NoArgs EXCEPT !.fn = "exportGroup", !.parentDocPath = GroupPath,
                                !.uid = user_id],
                 [NoArgs EXCEPT !.fn = "handleGlobalJournalMenu", !.parentDocPath = UserPath,
                                !.uid = user_id] }
  /\ store \in ExportStores
  /\ account \in IF entry.fn = "handleGlobalJournalMenu" THEN Accounts ELSE {NoAccount}
  /\ CONFIG = [QUERY_PAGE_SIZE |-> MaxPage, MAX_LIST_PAGE_SIZE |-> MaxPage,
               DOWNLOAD_CONCURRENCY |-> 1]
  /\ faults = MaxFaults
  /\ failLog = <<>>
  /\ pc = "start"
  /\ FetchIdle
  /\ DownloadIdle
  /\ ExportIdle
  /\ DecodeIdle
  /\ kins = <<>>
  /\ groups = <<>>
  /\ at = 0
  /\ calls = <<>>
  /\ logged = <<>>
  /\ decodedWith = {}
  /\ version = "1.1.0"
  /\ responses = <<>>
  /\ earlier = <<>>

NextVersions ==
  \/ ExportCall
  \/ HttpGET_Request
  \/ HttpGET_Response
  \/ ServerGet
  \/ Export_Profile
  \/ Export_ChatCatch
  \/ Export_Chat
  \/ ExportKin_Pinned
  \/ ExportGroup_Pinned
  \/ ExportKin_Journal
  \/ ExportKin_Selfies
  \/ ExportKinV110_Videos
  \/ ExportKin_Videos
  \/ ExportKin_AnswerNo
  \/ AskYesNo_Again
  \/ Export_Throw
  \/ CallGlobalJournalMenu
  \/ GlobalJournal_Done
  \/ ListAll_Request
  \/ ListAll_Response
  \/ RunQueryAll_Request
  \/ RunQueryAll_Response
  \/ ServerFails
  \/ ServerRunQuery
  \/ ServerList
  \/ ServerReplays
  \/ FetchJournalAll_Return
  \/ FetchJournalAll_Fallback
  \/ FetchJournalAll_Rethrow
  \/ FetchJournalAll_FallbackDone
  \/ Finish
  \/ RunNewVersion

SpecVersions == InitVersions /\ [][NextVersions]_vars


\* ============================================== decodeValue / decodeFields
\* JavaScript values: what JSON.parse gives, and what the decoder makes of it.
\* A string is its sequence of characters; an object is its own enumerable
\* properties in order.
Undefined == [j |-> "undefined"]
Null == [j |-> "null"]
NaN == [j |-> "nan"]
Bool(b) == [j |-> "bool", b |-> b]
Num(n) == [j |-> "num", n |-> n]
Str(s) == [j |-> "str", s |-> s]
Arr(members) == [j |-> "arr", items |-> members]
Obj(ent) == [j |-> "obj", ent |-> ent]
Field(k, v) == [k |-> k, v |-> v]
\* Array.prototype.values, which every array inherits
Function == [j |-> "function"]
\* the exception of a property read on null, or of a call of what is no function
TypeError == [j |-> "TypeError"]

\* x || ...
Truthy(x) ==
  CASE x.j \in {"undefined", "null", "nan"} -> FALSE
    [] x.j = "bool" -> x.b
    [] x.j = "num" -> x.n # 0
    [] x.j = "str" -> x.s # <<>>
    [] OTHER -> TRUE

\* x[key], for x neither null nor undefined
Get(x, key) ==
  CASE x.j = "obj" ->
         IF \E i \in 1..Len(x.ent) : x.ent[i].k = key
         THEN x.ent[CHOOSE i \in 1..Len(x.ent) : x.ent[i].k = key].v
         ELSE Undefined
    [] x.j = "arr" /\ key = "values" -> Function
    [] OTHER -> Undefined

IndexKeys == <<"0", "1", "2", "3", "4", "5", "6", "7">>

\* Object.entries(x)
Entries(x) ==
  CASE x.j = "obj" -> x.ent
    [] x.j = "arr" -> [i \in 1..Len(x.items) |-> Field(IndexKeys[i], x.items[i])]
    [] x.j = "str" -> [i \in 1..Len(x.s) |-> Field(IndexKeys[i], Str(<<x.s[i]>>))]
    [] OTHER -> <<>>

\* out[k] = v on an object literal: "__proto__" is the inherited accessor, so
\* the assignment makes no property of its own
Assign(out, k, v) ==
  IF k = "__proto__" THEN out
  ELSE IF \E i \in 1..Len(out) : out[i].k = k
       THEN [i \in 1..Len(out) |-> IF out[i].k = k THEN Field(k, v) ELSE out[i]]
       ELSE Append(out, Field(k, v))

Digits == <<"0", "1", "2", "3", "4", "5", "6", "7", "8", "9">>

IsDigit(c) == \E d \in 1..Len(Digits) : Digits[d] = c

DigitOf(c) == (CHOOSE d \in 1..Len(Digits) : Digits[d] = c) - 1

RECURSIVE DigitsValue(_)
DigitsValue(s) ==
  IF s = <<>> THEN 0
  ELSE DigitsValue(SubSeq(s, 1, Len(s) - 1)) * 10 + DigitOf(s[Len(s)])

\* Number(x)
RECURSIVE ToNumber(_)
ToNumber(x) ==
  CASE x.j = "num" -> x
    [] x.j = "null" -> Num(0)
    [] x.j = "bool" -> Num(IF x.b THEN 1 ELSE 0)
    [] x.j = "str" ->
         IF \A i \in 1..Len(x.s) : IsDigit(x.s[i]) THEN Num(DigitsValue(x.s)) ELSE NaN
    [] x.j = "arr" ->
         IF x.items = <<>> THEN Num(0)
         ELSE IF Len(x.items) > 1 THEN NaN
         ELSE IF x.items[1].j \in {"null", "undefined"} THEN Num(0)
         ELSE IF x.items[1].j \in {"bool", "obj"} THEN NaN
         ELSE ToNumber(x.items[1])
    [] OTHER -> NaN

EncPrefix == <<"!", "e", "n", "c", ":">>

\* value.startsWith('!enc:')
StartsWithEnc(s) == Len(s) >= Len(EncPrefix) /\ SubSeq(s, 1, Len(EncPrefix)) = EncPrefix

\* value.slice(5)
Slice5(s) == SubSeq(s, Len(EncPrefix) + 1, Len(s))

\* Base64 texts, each one character of the model: what Buffer.from(text,
\* 'base64') holds.  `long` is raw.length >= 16, `salted` the 'Salted__'
\* header, `key` the password the data was sealed with, `intact` whether the
\* data is whole, `passes` whether a wrong key leaves a valid padding by chance.
Sealed ==
  [c \in {"enc(uid,Ada)", "enc(uid,)", "enc(uid,Ada)cut", "enc(uid2,Ada)",
          "enc(other,Ada)", "enc(other,Ada)pad", "short", "nosalt"} |->
     CASE c = "enc(uid,Ada)" ->
            [long |-> TRUE, salted |-> TRUE, key |-> "uid", intact |-> TRUE,
             passes |-> FALSE, text |-> <<"A", "d", "a">>]
       [] c = "enc(uid,)" ->
            [long |-> TRUE, salted |-> TRUE, key |-> "uid", intact |-> TRUE,
             passes |-> FALSE, text |-> <<>>]
       [] c = "enc(uid,Ada)cut" ->
            [long |-> TRUE, salted |-> TRUE, key |-> "uid", intact |-> FALSE,
             passes |-> FALSE, text |-> <<"A", "d", "a">>]
       [] c = "enc(uid2,Ada)" ->
            [long |-> TRUE, salted |-> TRUE, key |-> "uid2", intact |-> TRUE,
             passes |-> FALSE, text |-> <<"A", "d", "a">>]
       [] c = "enc(other,Ada)" ->
            [long |-> TRUE, salted |-> TRUE, key |-> "other", intact |-> TRUE,
             passes |-> FALSE, text |-> <<"A", "d", "a">>]
       [] c = "enc(other,Ada)pad" ->
            [long |-> TRUE, salted |-> TRUE, key |-> "other", intact |-> TRUE,
             passes |-> TRUE, text |-> <<"A", "d", "a">>]
       [] c = "short" ->
            [long |-> FALSE, salted |-> FALSE, key |-> "", intact |-> FALSE,
             passes |-> FALSE, text |-> <<>>]
       [] OTHER ->
            [long |-> TRUE, salted |-> FALSE, key |-> "", intact |-> FALSE,
             passes |-> FALSE, text |-> <<>>]]

\* Buffer.from(opensslBase64, 'base64'): text that is no sealed string decodes
\* to bytes without the header
FromBase64(s) ==
  IF Len(s) = 1 /\ s[1] \in DOMAIN Sealed THEN Sealed[s[1]]
  ELSE [long |-> Len(s) >= 16, salted |-> FALSE, key |-> "", intact |-> FALSE,
        passes |-> FALSE, text |-> <<>>]

\* what a wrong key makes of data whose padding passes
Garbled == <<"?">>

decryptEncString(opensslBase64, uidPassword) ==
  LET raw == FromBase64(opensslBase64) IN
  IF ~raw.long \/ ~raw.salted THEN Null
  ELSE IF raw.key = uidPassword
       THEN (IF raw.intact THEN Str(raw.text) ELSE Null)    \* final() throws: caught
       ELSE (IF raw.passes THEN Str(Garbled) ELSE Null)

\* The result of a call: `v` the value returned (TypeError when the call
\* threw), `dec` the texts decryptEncString was called with.
Result(v, dec) == [v |-> v, dec |-> dec]

\* case 'stringValue'
DecodeStringKeepsNull(value, uid) ==
  IF value.j = "str" /\ StartsWithEnc(value.s)
  THEN Result(decryptEncString(Slice5(value.s), uid), {Slice5(value.s)})
  ELSE Result(value, {})

DecodeString(value, uid) ==
  IF value.j = "str" /\ StartsWithEnc(value.s)
  THEN LET plain == decryptEncString(Slice5(value.s), uid) IN
       Result(IF plain \in {Null, Undefined} THEN value ELSE plain, {Slice5(value.s)})
  ELSE Result(value, {})

\* default: the object itself
OpaqueAsString(firestoreValue, uid) ==
  IF firestoreValue.j = "obj" /\ firestoreValue.ent # <<>>
  THEN DecodeString(firestoreValue.ent[1].v, uid)
  ELSE Result(firestoreValue, {})

Opaque(firestoreValue, uid) == Result(firestoreValue, {})

\* the first n results put into one object; the loop stops at the first throw
RECURSIVE Collect(_, _, _)
Collect(src, sub, n) ==
  IF n = 0 THEN <<>> ELSE Assign(Collect(src, sub, n - 1), src[n].k, sub[n].v)

Threw(sub) == \E i \in 1..Len(sub) : sub[i].v = TypeError

FirstThrow(sub) == CHOOSE i \in 1..Len(sub) : sub[i].v = TypeError /\ \A h \in 1..(i - 1) : sub[h].v # TypeError

Tried(sub) ==
  UNION {sub[i].dec : i \in 1..(IF Threw(sub) THEN FirstThrow(sub) ELSE Len(sub))}

RECURSIVE decodeValue(_, _)
decodeValue(firestoreValue, uid) ==
  IF firestoreValue.j \notin {"obj", "arr"} THEN Result(firestoreValue, {})
  ELSE
    LET own == Entries(firestoreValue)
        key == IF own = <<>> THEN "" ELSE own[1].k
        value == IF own = <<>> THEN Undefined ELSE own[1].v
    IN
    CASE key = "stringValue" -> DecodeString(value, uid)
      [] key \in {"integerValue", "doubleValue"} -> Result(ToNumber(value), {})
      [] key = "booleanValue" -> Result(Bool(Truthy(value)), {})
      [] key = "timestampValue" -> Result(value, {})
      [] key = "nullValue" -> Result(Null, {})
      [] key = "mapValue" ->
           IF value.j \in {"null", "undefined"} THEN Result(TypeError, {})
           ELSE LET fields == Get(value, "fields")
                    src == IF Truthy(fields) THEN Entries(fields) ELSE <<>>
                    sub == [i \in 1..Len(src) |-> decodeValue(src[i].v, uid)]
                IN IF Threw(sub) THEN Result(TypeError, Tried(sub))
                   ELSE Result(Obj(Collect(src, sub, Len(src))), Tried(sub))
      [] key = "arrayValue" ->
           IF value.j \in {"null", "undefined"} THEN Result(TypeError, {})
           ELSE LET values == Get(value, "values") IN
                IF ~Truthy(values) THEN Result(Arr(<<>>), {})
                ELSE IF values.j # "arr" THEN Result(TypeError, {})   \* no .map
                ELSE LET sub == [i \in 1..Len(values.items) |->
                                   decodeValue(values.items[i], uid)]
                     IN IF Threw(sub) THEN Result(TypeError, Tried(sub))
                        ELSE Result(Arr([i \in 1..Len(sub) |-> sub[i].v]), Tried(sub))
      [] OTHER -> Opaque(firestoreValue, uid)

decodeFields(fields, uid) ==
  LET src == IF Truthy(fields) THEN Entries(fields) ELSE <<>>
      sub == [i \in 1..Len(src) |-> decodeValue(src[i].v, uid)]
  IN IF Threw(sub) THEN Result(TypeError, Tried(sub))
     ELSE Result(Obj(Collect(src, sub, Len(src))), Tried(sub))

\* ---- the arguments the calls are made with
Ada == <<"A", "d", "a">>

\* what a tag can carry
Payloads ==
  {Null, Bool(TRUE), Bool(FALSE), Num(0), Num(37), Str(<<>>), Str(Ada),
   Str(<<"3", "7">>), Str(<<"!", "e", "n", "c">>), Str(EncPrefix),
   Str(EncPrefix \o Ada)}
  \cup {Str(EncPrefix \o <<c>>) : c \in DOMAIN Sealed}

ScalarTags ==
  {"stringValue", "integerValue", "doubleValue", "booleanValue", "timestampValue",
   "nullValue", "bytesValue"}

Tagged(tag, payload) == Obj(<<Field(tag, payload)>>)

MapValue(ent) == Tagged("mapValue", Obj(<<Field("fields", Obj(ent))>>))

ArrayValue(members) == Tagged("arrayValue", Obj(<<Field("values", Arr(members))>>))

OddPayloads == {Null, Num(0), Str(Ada), Bool(TRUE), Obj(<<>>), Arr(<<>>), Arr(<<Num(37)>>)}

OddMembers == {Null, Num(0), Num(37), Str(<<>>), Str(Ada), Bool(FALSE), Bool(TRUE), Obj(<<>>), Arr(<<>>)}

WireLeaves ==
  {Tagged(t, p) : t \in ScalarTags, p \in Payloads}
  \cup {Tagged("mapValue", p) : p \in OddPayloads}
  \cup {Tagged("mapValue", Obj(<<Field("fields", m)>>)) : m \in OddMembers}
  \cup {Tagged("arrayValue", p) : p \in OddPayloads}
  \cup {Tagged("arrayValue", Obj(<<Field("values", m)>>)) : m \in OddMembers}
  \cup {Tagged("geoPointValue", Tagged("stringValue", Str(EncPrefix \o <<"enc(uid,Ada)">>))),
        Tagged("referenceValue", Tagged("mapValue", Null))}

\* arguments that are no tagged object
Untagged ==
  Payloads
  \cup {Undefined, Obj(<<>>), Arr(<<>>), Arr(<<Tagged("stringValue", Str(Ada))>>),
        Obj(<<Field("integerValue", Str(<<"3", "7">>)), Field("stringValue", Str(Ada))>>)}

Secrets == {"uid", "uid2"}

\* the fields and members put beside a value when it is nested
Siblings == {Tagged("integerValue", Str(<<"3", "7">>)), Tagged("stringValue", Str(EncPrefix \o <<"nosalt">>))}

FieldNames == {"name", "__proto__"}

Max2(a, b) == IF a >= b THEN a ELSE b

RECURSIVE MaxOver(_, _)
MaxOver(f, n) == IF n = 0 THEN 0 ELSE Max2(f[n], MaxOver(f, n - 1))

\* how many maps and arrays enclose the innermost value
RECURSIVE Nesting(_)
Nesting(x) ==
  IF x.j # "obj" \/ x.ent = <<>> THEN 0
  ELSE IF x.ent[1].k = "mapValue" /\ x.ent[1].v.j = "obj"
          /\ Get(x.ent[1].v, "fields").j = "obj" /\ Get(x.ent[1].v, "fields").ent # <<>>
       THEN LET ent == Get(x.ent[1].v, "fields").ent IN
            1 + MaxOver([i \in 1..Len(ent) |-> Nesting(ent[i].v)], Len(ent))
  ELSE IF x.ent[1].k = "arrayValue" /\ x.ent[1].v.j = "obj"
          /\ Get(x.ent[1].v, "values").j = "arr" /\ Get(x.ent[1].v, "values").items # <<>>
       THEN LET members == Get(x.ent[1].v, "values").items IN
            1 + MaxOver([i \in 1..Len(members) |-> Nesting(members[i])], Len(members))
  ELSE 0

OthersIdle ==
  /\ CONFIG = [QUERY_PAGE_SIZE |-> 1, MAX_LIST_PAGE_SIZE |-> 1, DOWNLOAD_CONCURRENCY |-> 1]
  /\ store = [c \in CollectionIds |-> {}]
  /\ entry = NoArgs
  /\ faults = 0
  /\ failLog = <<>>
  /\ pc = "idle"
  /\ FetchIdle
  /\ DownloadIdle
  /\ ExportIdle
  /\ AllIdle
  /\ account = NoAccount

InitDecode ==
  /\ wire \in WireLeaves \cup Untagged
  /\ secret \in Secrets
  /\ dpc = "build"
  /\ decoded = Undefined
  /\ attempts = {}
  /\ OthersIdle

\* the value becomes a field of a map
NestInMap ==
  /\ dpc = "build"
  /\ Nesting(wire) < MaxDepth
  /\ \E name \in FieldNames :
       \E ent \in {<<Field(name, wire)>>}
                  \cup {<<Field(name, wire), Field("age", sib)>> : sib \in Siblings}
                  \cup {<<Field("age", sib), Field(name, wire)>> : sib \in Siblings} :
         wire' = MapValue(ent)
  /\ UNCHANGED <<secret, dpc, decoded, attempts>>
  /\ UNCHANGED <<fetchVars, dlVars, exportVars, allVars, cmpVars>>

\* the value becomes a member of an array
NestInArray ==
  /\ dpc = "build"
  /\ Nesting(wire) < MaxDepth
  /\ \E members \in {<<wire>>}
                  \cup {<<wire, sib>> : sib \in Siblings}
                  \cup {<<sib, wire>> : sib \in Siblings} :
       wire' = ArrayValue(members)
  /\ UNCHANGED <<secret, dpc, decoded, attempts>>
  /\ UNCHANGED <<fetchVars, dlVars, exportVars, allVars, cmpVars>>

Returns(fn, result) ==
  /\ dpc' = fn
  /\ decoded' = result.v
  /\ attempts' = result.dec
  /\ UNCHANGED <<wire, secret>>
  /\ UNCHANGED <<fetchVars, dlVars, exportVars, allVars, cmpVars>>

DecodeValue ==
  /\ dpc = "build"
  /\ Returns("decodeValue", decodeValue(wire, secret))

DecodeFields ==
  /\ dpc = "build"
  /\ Returns("decodeFields", decodeFields(wire, secret))

NextDecode ==
  \/ NestInMap
  \/ NestInArray
  \/ DecodeValue
  \/ DecodeFields

SpecDecode == InitDecode /\ [][NextDecode]_vars

\* ================================================================== claims
QueryOrder(field) == <<Asc(field), Asc("__name__")>>

\* The whole collection `id` in ascending (field, name) order.
InQueryOrder(id, field) == SortDocs(store[id], QueryOrder(field))

MethodOf(fn) == IF fn = "listAll" THEN "GET" ELSE "POST"

\* C1: whenever runQueryAll returns, its result is the whole collection in ascending
\* (order field, document name) order: every document exactly once, none skipped or
\* repeated at a page boundary, for every collection size and page size.
Thm_C1 ==
  (pc = "resume" /\ args.fn = "runQueryAll" /\ ret.kind = "value") =>
    /\ ret.docs = InQueryOrder(args.collectionId, args.orderField)
    /\ NoDuplicates(ret.docs)
    /\ Len(ret.docs) = Cardinality(store[args.collectionId])

\* A query of three documents in pages of one, two of them tied on the order field.
Wit_C1 ==
  /\ pc = "resume" /\ args.fn = "runQueryAll" /\ ret.kind = "value"
  /\ CONFIG.QUERY_PAGE_SIZE < Len(ret.docs)
  /\ Len(ret.docs) = 3
  /\ Len(reqLog) >= 3
  /\ ret.docs[1].fields[args.orderField] = ret.docs[2].fields[args.orderField]

\* C2: whenever listAll returns, its result is the whole listing, in the order the
\* server lists it: the pages' documents concatenated, every document exactly once,
\* also when a page carried a token and no documents.
Thm_C2 ==
  (pc = "resume" /\ args.fn = "listAll" /\ ret.kind = "value") =>
    LET all == Listing([Request("list", args.collectionPath) EXCEPT
                          !.orderByParam = args.orderByClause])
    IN /\ ret.docs = all
       /\ NoDuplicates(ret.docs)
       /\ Len(ret.docs) = Cardinality(store[args.collectionPath[Len(args.collectionPath)]])

\* A listing of three documents over at least three pages, one of them empty.
Wit_C2 ==
  /\ entry.fn = "listAll"
  /\ pc = "resume" /\ ret.kind = "value"
  /\ emptyPages >= 1
  /\ Len(ret.docs) = 3
  /\ Len(reqLog) >= 3

AfterFirstFailure == {i \in 1..Len(reqLog) : i > failLog[1].index}

\* C3: when fetchJournalAll's query fails with a permission error (HTTP 403) and the
\* listing does not fail, every later request is a listing of parentDocPath/collectionId
\* ordered 'created asc,__name__ asc', and fetchJournalAll returns the whole collection
\* in (created, name) order, as the query would have.
Thm_C3 ==
  (/\ entry.fn = "fetchJournalAll" /\ pc = "done"
   /\ Len(failLog) = 1 /\ failLog[1].status = 403) =>
    /\ outcome.kind = "value"
    /\ outcome.docs = InQueryOrder(entry.collectionId, "created")
    /\ AfterFirstFailure # {}
    /\ \A i \in AfterFirstFailure :
         /\ reqLog[i].kind = "list"
         /\ reqLog[i].path = Append(entry.parentDocPath, entry.collectionId)
         /\ reqLog[i].orderByParam = "created asc,__name__ asc"

\* The query failed with 403 on its second page; the listing returned three documents
\* whose creation order is not their name order.
Wit_C3 ==
  /\ entry.fn = "fetchJournalAll" /\ pc = "done"
  /\ Len(failLog) = 1 /\ failLog[1].status = 403 /\ failLog[1].index = 2
  /\ outcome.kind = "value" /\ Len(outcome.docs) = 3
  /\ outcome.docs[1].name > outcome.docs[2].name

\* A failed response that is a permission error: status 403, or a body that says so.
IsPermissionFailure(f) == f.status = 403 \/ Includes(f.body, <<"PERMISSION_DENIED">>)

\* C4: in fetchJournalAll a failed query that is not a permission error is thrown to
\* the caller as it is and no listing request is made.
Claim_C4 ==
  (/\ entry.fn = "fetchJournalAll"
   /\ failLog # <<>> /\ ~IsPermissionFailure(failLog[1])) =>
    /\ \A i \in 1..Len(reqLog) : reqLog[i].kind # "list"
    /\ pc = "done" => outcome = Thrown(HttpError("POST", failLog[1]))

\* C5: fetchJournalAll changes strategy at most once: a failure of the listing
\* fallback, of any kind, is what the caller gets, and no request follows it.
Thm_C5 ==
  (entry.fn = "fetchJournalAll") =>
    /\ \A i, j \in 1..Len(reqLog) : (i < j /\ reqLog[i].kind = "list") => reqLog[j].kind = "list"
    /\ Len(failLog) >= 2 =>
         /\ Len(failLog) = 2
         /\ failLog[2].kind = "list"
         /\ Len(reqLog) = failLog[2].index
         /\ outcome.kind # "value"
         /\ pc = "done" => outcome = Thrown(HttpError("GET", failLog[2]))

\* The query and then the listing both failed with a permission error.
Wit_C5 ==
  /\ entry.fn = "fetchJournalAll" /\ pc = "done"
  /\ Len(failLog) = 2 /\ failLog[1].status = 403 /\ failLog[2].status = 403
  /\ outcome.kind = "throw"

\* Failed responses to a query of the entity's chat messages that are not permission
\* errors.
ChatQueryFailures ==
  {k \in 1..Len(failLog) :
     /\ failLog[k].kind = "runQuery"
     /\ reqLog[failLog[k].index].collectionId = "ChatMessages"
     /\ ~IsPermissionFailure(failLog[k])}

\* C6: in exportKin and exportGroup a failure of the chat-messages query that is not a
\* permission error is thrown to the caller of the export, and the chat messages are not
\* requested through the listing instead.
Claim_C6 ==
  (entry.fn \in {"exportKin", "exportGroup"} /\ ChatQueryFailures # {}) =>
    /\ \A i \in 1..Len(reqLog) :
         ~(reqLog[i].kind = "list" /\ reqLog[i].path = Append(entry.parentDocPath, "ChatMessages"))
    /\ pc = "done" =>
         \E k \in ChatQueryFailures : outcome = Thrown(HttpError("POST", failLog[k]))

\* C7: a failed page request ends listAll and runQueryAll: the error httpGET / httpPOST
\* threw is what the caller gets, no request follows the failed one, and no document
\* list is returned.
Thm_C7 ==
  (entry.fn \in {"listAll", "runQueryAll"} /\ failLog # <<>>) =>
    /\ Len(failLog) = 1
    /\ Len(reqLog) = failLog[1].index
    /\ ret.kind # "value" /\ outcome.kind # "value"
    /\ pc \in {"resume", "done"} => ret = Thrown(HttpError(MethodOf(entry.fn), failLog[1]))
    /\ pc = "done" => outcome = ret

\* A query whose second page failed with a permission error, after a first page of
\* documents.
Wit_C7 ==
  /\ entry.fn = "runQueryAll" /\ pc = "done"
  /\ failLog # <<>> /\ failLog[1].index = 2 /\ failLog[1].status = 403
  /\ documents # <<>>
  /\ outcome.kind = "throw"

TaskIds == 1..Len(items)

\* Tasks popped and not yet counted.
InProgress == {i \in TaskIds : Len(takenBy[i]) > Len(counted[i])}

\* C8: every task is popped by one worker only and counted once; a worker that is not
\* done holds a task; when downloadMedia resolves every task has been popped and
\* counted and the pool is empty.
Thm_C8 ==
  /\ \A i \in TaskIds : Len(takenBy[i]) <= 1 /\ Len(counted[i]) <= Len(takenBy[i])
  /\ \A w \in DOMAIN workers :
       /\ workers[w].pc # "exited" => workers[w].item # <<>>
       /\ workers[w].item # <<>> => takenBy[workers[w].item[1].id] = <<w>>
  /\ \A v, w \in DOMAIN workers :
       (v # w /\ workers[v].item # <<>> /\ workers[w].item # <<>>) =>
         workers[v].item[1].id # workers[w].item[1].id
  /\ \A i \in TaskIds :
       Len(takenBy[i]) = 0 =>
         (dl = "start" \/ \E k \in 1..Len(itemsToProcess) : itemsToProcess[k].id = i)
  /\ dl = "resolved" =>
       /\ itemsToProcess = <<>>
       /\ \A i \in TaskIds : Len(takenBy[i]) = 1 /\ Len(counted[i]) = 1

\* Three tasks shared by two workers, each of which took at least one.
Wit_C8 ==
  /\ dl = "resolved" /\ Len(items) = 3 /\ Len(workers) = 2
  /\ \E i, j \in TaskIds : takenBy[i] = <<1>> /\ takenBy[j] = <<2>>
  /\ \E i \in TaskIds : i < 3 /\ takenBy[i] = <<2>>

CountedAs(c) == {i \in TaskIds : \E k \in 1..Len(counted[i]) : counted[i][k] = c}

\* C9: completed + failed never exceeds total; each task increments one counter, once;
\* the counters equal the numbers of tasks so counted; when downloadMedia resolves
\* completed + failed = total = the number of tasks.
Thm_C9 ==
  /\ dl \in {"running", "resolved"} /\ Len(items) > 0 =>
       /\ total = Len(items)
       /\ completed + failed <= total
  /\ \A i \in TaskIds : Len(counted[i]) <= 1
  /\ completed = Cardinality(CountedAs("completed"))
  /\ failed = Cardinality(CountedAs("failed"))
  /\ dl = "resolved" => completed + failed = Len(items)

\* A batch of three ended with both counters above zero.
Wit_C9 ==
  /\ dl = "resolved" /\ Len(items) = 3 /\ Len(workers) = 2
  /\ completed >= 1 /\ failed >= 1 /\ completed + failed = 3

\* C10: downloadMedia starts min(DOWNLOAD_CONCURRENCY, number of tasks) workers, never
\* more tasks than that are in progress, and a worker returns only when the pool is
\* empty.
Thm_C10 ==
  dl \in {"running", "resolved"} =>
    /\ Len(workers) = Min(CONFIG.DOWNLOAD_CONCURRENCY, Len(items))
    /\ Cardinality(InProgress) <= Min(CONFIG.DOWNLOAD_CONCURRENCY, Len(items))
    /\ Cardinality({w \in DOMAIN workers : workers[w].pc # "exited"}) = Cardinality(InProgress)
    /\ \A w \in DOMAIN workers : workers[w].pc = "exited" => itemsToProcess = <<>>

\* More tasks than workers: two in progress, one waiting in the pool.
Wit_C10 ==
  /\ dl = "running" /\ Len(items) = 3 /\ CONFIG.DOWNLOAD_CONCURRENCY = 2
  /\ Cardinality(InProgress) = 2
  /\ Len(itemsToProcess) = 1
  /\ \E w \in DOMAIN workers : workers[w].pc = "write"

HasFailure(h) == \E k \in 1..Len(h) : h[k] \in {"fetch failed", "body failed", "write failed"}

Occurrences(h, event) == Cardinality({k \in 1..Len(h) : h[k] = event})

\* C11: a task whose destination exists when its worker checks it is counted as
\* completed, and nothing else happens for it: no fetch of its URL, no write.
Thm_C11 ==
  \A i \in TaskIds :
    Occurrences(io[i], "exists") > 0 =>
      /\ io[i] = <<"exists">>
      /\ fetched[i] = 0
      /\ counted[i] = <<"completed">>

\* Two tasks with one destination: the first one taken wrote the file, the other
\* found it.
Wit_C11 ==
  /\ dl = "resolved"
  /\ \E i, j \in TaskIds :
       /\ i # j /\ items[i].dest = items[j].dest
       /\ io[i] = <<"fetch", "write", "written">>
       /\ io[j] = <<"exists">> /\ counted[j] = <<"completed">>

Thm_C13 ==
  /\ dl = "running" =>
       \A w \in DOMAIN workers : workers[w].pc = "exited" => itemsToProcess = <<>>
  /\ dl = "resolved" =>
       /\ \A i \in TaskIds :
            /\ io[i] # <<>>
            /\ counted[i] = IF HasFailure(io[i]) THEN <<"failed">> ELSE <<"completed">>
            /\ ~HasFailure(io[i]) => io[i][Len(io[i])] \in {"exists", "written"}
       /\ Cardinality({i \in TaskIds : HasFailure(io[i])}) = 1 =>
            (completed = Len(items) - 1 /\ failed = 1)

\* One task of three failed, and the worker that met the failure went on to complete
\* another task.
Wit_C13 ==
  /\ dl = "resolved" /\ Len(items) = 3 /\ Len(workers) = 2
  /\ failed = 1 /\ completed = 2
  /\ \E i, j \in TaskIds :
       /\ j < i /\ takenBy[i] = takenBy[j]
       /\ HasFailure(io[i]) /\ io[j] = <<"fetch", "write", "written">>

\* C14: in one call each task's URL is fetched at most once, and a failure is the
\* last thing that happens to a task: it is counted as failed and nothing more.
Thm_C14 ==
  \A i \in TaskIds :
    /\ fetched[i] <= 1
    /\ Occurrences(io[i], "fetch") = fetched[i]
    /\ HasFailure(io[i]) =>
         /\ io[i][Len(io[i])] \in {"fetch failed", "body failed", "write failed"}
         /\ \A k \in 1..(Len(io[i]) - 1) : io[i][k] \in {"fetch", "write"}
         /\ counted[i] = <<"failed">>

\* A failed fetch, and the same worker done with a later task while the failed one
\* stays as it was.
Wit_C14 ==
  /\ dl = "running"
  /\ \E i, j \in TaskIds :
       /\ j < i /\ takenBy[i] = takenBy[j]
       /\ io[i] = <<"fetch", "fetch failed">> /\ counted[i] = <<"failed">>
       /\ counted[j] = <<"completed">>

\* A run of handleExportAll: it opens with the confirmation question.
BulkRun == prompts # <<>> /\ prompts[1].question = "confirm"

\* The exports an Export All of the account makes, in order.
ExpectedCalls ==
  [i \in 1..Cardinality(account.AIs) |-> [fn |-> "exportKin", id |-> KinIds[i]]]
  \o [i \in 1..Cardinality(account.Groups) |-> [fn |-> "exportGroup", id |-> GroupIds[i]]]
  \o <<[fn |-> "handleGlobalJournalMenu", id |-> "GlobalJournalV3"]>>

Thrown_Calls == SelectSeq(calls, LAMBDA c : c.result = "thrown")

\* C15: in an Export All the exports are started in the account's order whether or not
\* earlier ones threw; each export that threw is logged, once; handleExportAll returns
\* only after every Kin, every Group Chat and the Global Journal have been started, and
\* it throws only when one of its own two listings fails.
Thm_C15 ==
  BulkRun =>
    /\ Len(calls) <= Len(ExpectedCalls)
    /\ \A i \in 1..Len(calls) :
         calls[i].fn = ExpectedCalls[i].fn /\ calls[i].id = ExpectedCalls[i].id
    /\ Len(logged) = Len(Thrown_Calls)
    /\ \A i \in 1..Len(logged) :
         logged[i].fn = Thrown_Calls[i].fn /\ logged[i].id = Thrown_Calls[i].id
    /\ (pc = "done" /\ outcome.kind = "value" /\ prompts[Len(prompts)].answer = "yes") =>
         (Len(calls) = Len(ExpectedCalls) /\ \A i \in 1..Len(calls) : calls[i].result # "")
    /\ (pc = "done" /\ outcome.kind = "throw") =>
         /\ reqLog[Len(reqLog)].kind = "list"
         /\ reqLog[Len(reqLog)].path \in {Append(UserPath, "AIs"), Append(UserPath, "Groups")}
         /\ failLog[Len(failLog)].index = Len(reqLog)
         /\ outcome.error = HttpError("GET", failLog[Len(failLog)])

\* The first of two Kins threw; the second Kin, the Group Chat and the Global Journal
\* were exported all the same.
Wit_C15 ==
  /\ BulkRun /\ pc = "done" /\ outcome.kind = "value"
  /\ Len(calls) = 4
  /\ calls[1] = [fn |-> "exportKin", id |-> "kin1", result |-> "thrown"]
  /\ \A i \in 2..4 : calls[i].result = "returned"
  /\ Len(logged) = 1

LastPrompt == prompts[Len(prompts)]

\* C16: a media download is under way only in exportKin, and only with
\* forceDownloadMedia or after the answer yes; with forceDownloadMedia the question is
\* never put (so never in an Export All); after the answer no or Esc, and in
\* exportGroup and the Global Journal export, no download starts and no URL is fetched.
Thm_C16 ==
  /\ dl # "idle" =>
       /\ entry.fn = "exportKin"
       /\ \/ entry.forceDownloadMedia
          \/ (prompts # <<>> /\ LastPrompt = [question |-> "media", answer |-> "yes"])
  /\ (entry.fn = "exportKin" /\ entry.forceDownloadMedia) =>
       \A i \in 1..Len(prompts) : prompts[i].question # "media"
  /\ BulkRun =>
       /\ \A i \in 1..Len(prompts) : prompts[i].question = "confirm"
       /\ entry.fn = "exportKin" => entry.forceDownloadMedia
  /\ (prompts # <<>> /\ LastPrompt.question = "media" /\ LastPrompt.answer \in {"no", "esc"}) =>
       (dl = "idle" /\ fetched = <<>> /\ disk = {})
  /\ entry.fn \in {"exportGroup", "handleGlobalJournalMenu", "handleExportAll"} =>
       (dl = "idle" /\ fetched = <<>>)

\* exportKin wrote its six files, asked twice, was answered with Esc and returned
\* without a download.
Wit_C16 ==
  /\ pc = "done" /\ entry.fn = "exportKin" /\ ~entry.forceDownloadMedia
  /\ Len(files) = 6 /\ Len(packedSelfies) > 0
  /\ prompts = <<[question |-> "media", answer |-> "other"],
                 [question |-> "media", answer |-> "esc"]>>
  /\ dl = "idle"

\* ---- decoder
\* a call of decodeValue or decodeFields has completed
Decoded == dpc \in {"decodeValue", "decodeFields"}

\* C17: decodeValue and decodeFields return a value for every argument and never
\* throw: for every recognised tag, for unknown tags, the empty object, arguments
\* that are no object, and for map and array values whose payload is empty,
\* missing or null.
Claim_C17 == Decoded => decoded # TypeError

\* the argument is { tag: payload }
IsTagged(x, tag) == x.j = "obj" /\ x.ent # <<>> /\ x.ent[1].k = tag

Payload(x) == x.ent[1].v

\* a string with the prefix that cannot be decrypted with this password: too
\* short, without the header, cut, or sealed with another password
Undecryptable(x, uid) ==
  /\ IsTagged(x, "stringValue") /\ Payload(x).j = "str" /\ StartsWithEnc(Payload(x).s)
  /\ LET raw == FromBase64(Slice5(Payload(x).s)) IN
     \/ ~raw.long
     \/ ~raw.salted
     \/ raw.key = uid /\ ~raw.intact
     \/ raw.key # uid /\ ~raw.passes

\* the fields of the record being decoded: of a map value under decodeValue,
\* of the argument under decodeFields (<<>> when there are none)
Record ==
  IF dpc = "decodeFields" /\ wire.j = "obj" THEN wire.ent
  ELSE IF dpc = "decodeValue" /\ IsTagged(wire, "mapValue") /\ Payload(wire).j = "obj"
          /\ Get(Payload(wire), "fields").j = "obj"
       THEN Get(Payload(wire), "fields").ent
  ELSE <<>>

\* every string inside x
RECURSIVE Strings(_)
Strings(x) ==
  CASE x.j = "str" -> {x}
    [] x.j = "obj" -> UNION {Strings(x.ent[i].v) : i \in 1..Len(x.ent)}
    [] x.j = "arr" -> UNION {Strings(x.items[i]) : i \in 1..Len(x.items)}
    [] OTHER -> {}

\* C18: decodeValue of a string value with the prefix that cannot be decrypted
\* is the original string, prefix included (never null, never an error), after
\* one attempt; the other fields of the record around it are decoded as they
\* are on their own; a string without the prefix is returned unchanged, and
\* decryption is attempted on nothing but the text after a prefix.
Thm_C18 ==
  /\ (dpc = "decodeValue" /\ IsTagged(wire, "stringValue") /\ Payload(wire).j = "str") =>
       IF StartsWithEnc(Payload(wire).s)
       THEN /\ attempts = {Slice5(Payload(wire).s)}
            /\ decoded # Null /\ decoded # TypeError
            /\ Undecryptable(wire, secret) => decoded = Payload(wire)
       ELSE decoded = Payload(wire) /\ attempts = {}
  /\ Decoded =>
       \A i \in 1..Len(Record) :
         Undecryptable(Record[i].v, secret) =>
           /\ decoded # TypeError =>
                /\ Record[i].k # "__proto__" =>
                     Get(decoded, Record[i].k) = Payload(Record[i].v)
                /\ \A h \in 1..Len(Record) :
                     Record[h].k # "__proto__" =>
                       Get(decoded, Record[h].k) = decodeValue(Record[h].v, secret).v
           /\ decoded = TypeError =>
                \E h \in 1..Len(Record) : h # i /\ decodeValue(Record[h].v, secret).v = TypeError
  /\ Decoded => \A a \in attempts : Str(EncPrefix \o a) \in Strings(wire)

\* A record decoded with the password "uid": the note cannot be decrypted and
\* comes back as it is, the name beside it is decrypted.
Wit_C18 ==
  /\ dpc = "decodeValue" /\ secret = "uid"
  /\ wire = MapValue(<<Field("age", Tagged("stringValue", Str(EncPrefix \o <<"nosalt">>))),
                       Field("name", Tagged("stringValue", Str(EncPrefix \o <<"enc(uid,Ada)">>)))>>)
  /\ decoded = Obj(<<Field("age", Str(EncPrefix \o <<"nosalt">>)), Field("name", Str(Ada))>>)
  /\ attempts = {<<"nosalt">>, <<"enc(uid,Ada)">>}

\* the wire map of a map value (<<>> when the payload has none)
WireMap(x) ==
  IF Payload(x).j = "obj" /\ Get(Payload(x), "fields").j = "obj"
  THEN Get(Payload(x), "fields").ent
  ELSE <<>>

\* C19: decodeValue of a map value returns a record with exactly the field
\* names of the wire map, each with the decodeValue of its wire value, at every
\* depth; integer and double values become numbers ({name: 'Ada', age: '37' as
\* integerValue} decodes to {name: 'Ada', age: 37}).
Claim_C19 ==
  (dpc = "decodeValue" /\ IsTagged(wire, "mapValue") /\ Payload(wire).j = "obj"
     /\ Get(Payload(wire), "fields").j \in {"obj", "null", "undefined"}) =>
    LET src == WireMap(wire) IN
    /\ decoded.j = "obj"
    /\ Len(decoded.ent) = Len(src)
    /\ \A i \in 1..Len(src) :
         /\ decoded.ent[i].k = src[i].k
         /\ decoded.ent[i].v = decodeValue(src[i].v, secret).v
         /\ decoded.ent[i].v # TypeError
         /\ (IsTagged(src[i].v, "integerValue") \/ IsTagged(src[i].v, "doubleValue")) =>
              decoded.ent[i].v.j \in {"num", "nan"}

\* the wire sequence of an array value (<<>> when the payload has none)
WireSeq(x) ==
  IF Payload(x).j = "obj" /\ Get(Payload(x), "values").j = "arr"
  THEN Get(Payload(x), "values").items
  ELSE <<>>

\* C20: decodeValue of an array value returns a sequence of the same length
\* whose i-th element is the decodeValue of the i-th wire element, for every i.
Claim_C20 ==
  (dpc = "decodeValue" /\ IsTagged(wire, "arrayValue") /\ Payload(wire).j = "obj"
     /\ Get(Payload(wire), "values").j \in {"arr", "null", "undefined"}) =>
    LET src == WireSeq(wire) IN
    /\ decoded.j = "arr"
    /\ Len(decoded.items) = Len(src)
    /\ \A i \in 1..Len(src) :
         /\ decoded.items[i] = decodeValue(src[i], secret).v
         /\ decoded.items[i] # TypeError

\* the eight kinds decodeValue interprets
Interpreted ==
  {"stringValue", "integerValue", "doubleValue", "booleanValue", "timestampValue",
   "nullValue", "mapValue", "arrayValue"}

\* C21: for an object whose tag is none of the eight interpreted kinds
\* decodeValue returns the object itself, whatever it holds: nothing inside it
\* is decrypted or decoded.
Thm_C21 ==
  (dpc = "decodeValue" /\ wire.j = "obj" /\ ~(\E t \in Interpreted : IsTagged(wire, t))) =>
    (decoded = wire /\ attempts = {})

\* A geoPointValue holding a sealed string value that the password opens comes
\* back as it went in.
Wit_C21 ==
  /\ dpc = "decodeValue" /\ secret = "uid"
  /\ wire = Tagged("geoPointValue", Tagged("stringValue", Str(EncPrefix \o <<"enc(uid,Ada)">>)))
  /\ decoded = wire
  /\ attempts = {}

\* ---- fetch order
\* C22: fetching is sequential in listAll and runQueryAll and across the fetch
\* steps of exportKin, exportGroup and fetchJournalAll: at most one request is
\* outstanding, and a request is issued only when every earlier one has been
\* answered and its response taken.
Thm_C22 ==
  /\ [](Len(net) + Len(resp) <= 1)
  /\ [][reqLog' # reqLog =>
          /\ net = <<>> /\ resp = <<>>
          /\ Len(reqLog') = Len(reqLog) + 1
          /\ net' = <<reqLog'[Len(reqLog')]>>]_vars

\* exportKin is awaiting the answer to its fourth request, a listing.
Wit_C22 ==
  /\ entry.fn = "exportKin"
  /\ Len(reqLog) = 4 /\ Len(net) = 1 /\ resp = <<>>
  /\ net[1].kind = "list"

\* ---- pinned messages
\* the pinned-message files written so far
PinnedFiles == {i \in 1..Len(files) : files[i].name = "pinned_messages.json"}

\* the unordered listing gives the documents by name
ListedBefore(a, b) == a.id < b.id

\* C23: the pinned messages written by exportKin and exportGroup are the
\* listed documents, each once, in non-decreasing createTime order, documents
\* of equal createTime in their listing order.
Claim_C23 ==
  \A f \in PinnedFiles :
    LET it == files[f].items IN
    /\ Len(it) = Cardinality(store["PinnedMessages"])
    /\ {it[i].id : i \in 1..Len(it)} = {d.name : d \in store["PinnedMessages"]}
    /\ \A i, j \in 1..Len(it) :
         i < j =>
           /\ it[i].createTime <= it[j].createTime
           /\ it[i].createTime = it[j].createTime => ListedBefore(it[i], it[j])

\* ---- Export All confirmation
\* the user has answered yes to the confirmation
Confirmed ==
  \E i \in 1..Len(prompts) : prompts[i] = [question |-> "confirm", answer |-> "yes"]

\* no request was issued, no file written, no export or download started
NothingDone ==
  /\ reqLog = <<>> /\ net = <<>> /\ resp = <<>>
  /\ files = <<>> /\ calls = <<>> /\ logged = <<>>
  /\ dl = "idle" /\ fetched = <<>> /\ disk = {}

\* C24: handleExportAll issues no request and writes no file unless the
\* confirmation was answered yes; after no or Esc it has returned, having done
\* nothing.
Thm_C24 ==
  /\ ((entry.fn = "handleExportAll" \/ BulkRun) /\ ~Confirmed) => NothingDone
  /\ (BulkRun /\ LastPrompt.answer \in {"no", "esc"}) =>
       (pc = "done" /\ outcome = Returned(<<>>) /\ NothingDone)

\* The confirmation was put twice and answered with Esc: handleExportAll has
\* returned.
Wit_C24 ==
  /\ prompts = <<[question |-> "confirm", answer |-> "other"],
                 [question |-> "confirm", answer |-> "esc"]>>
  /\ pc = "done" /\ outcome = Returned(<<>>)
  /\ NothingDone
  /\ account["AIs"] # {}

\* ---- the secret
\* C25: in a session every call of packDocs and decodeFields, in the menu
\* handlers and in the exports, is passed the user_id of the token exchange;
\* the handler and the export under way hold it as their `uid`.
Thm_C25 ==
  /\ decodedWith \subseteq {user_id}
  /\ entry.uid = user_id
  /\ (\E f \in 1..Len(files) : files[f].items # <<>>) => decodedWith = {user_id}
  /\ (kins # <<>> \/ groups # <<>>) => decodedWith = {user_id}

\* An Export All has exported two Kins, a Group Chat and the Global Journal,
\* decoding every document with the same secret.
Wit_C25 ==
  /\ BulkRun /\ pc = "done" /\ outcome.kind = "value"
  /\ Len(calls) = 4 /\ \A i \in 1..4 : calls[i].result = "returned"
  /\ Len(files) > 12
  /\ decodedWith = {user_id}

\* ---- paging
\* the documents of the collection a top-level runQueryAll reads
Queried == Cardinality(store[entry.collectionId])

\* C26: runQueryAll asks for a further page exactly when the page before held
\* QUERY_PAGE_SIZE documents, and stops after an empty or a shorter page: every
\* page before a request was full, a collection of n documents costs
\* n \div QUERY_PAGE_SIZE + 1 requests (k + 1 for k full pages, one for an empty
\* collection, which yields the empty list).
Thm_C26 ==
  entry.fn = "runQueryAll" =>
    /\ Len(reqLog) >= 1 => Len(documents) >= (Len(reqLog) - 1) * CONFIG.QUERY_PAGE_SIZE
    /\ pc = "runQueryAll.request" => Len(documents) = Len(reqLog) * CONFIG.QUERY_PAGE_SIZE
    /\ Len(reqLog) <= Queried \div CONFIG.QUERY_PAGE_SIZE + 1
    /\ (pc = "done" /\ failLog = <<>>) =>
         /\ outcome.kind = "value"
         /\ Len(reqLog) = Queried \div CONFIG.QUERY_PAGE_SIZE + 1
         /\ Len(outcome.docs) = Queried
         /\ Queried = 0 => (Len(reqLog) = 1 /\ outcome.docs = <<>>)

\* Two documents in pages of two: the full page is followed by a second
\* request, whose page is empty.
Wit_C26 ==
  /\ entry.fn = "runQueryAll" /\ pc = "done" /\ failLog = <<>>
  /\ CONFIG.QUERY_PAGE_SIZE = 2 /\ Queried = 2
  /\ Len(reqLog) = 2
  /\ Len(outcome.docs) = 2

\* C27: listAll's first request carries no pageToken; every later request
\* carries the nextPageToken of the response just before it; every request
\* carries the same pageSize and the orderBy clause given; listAll returns at
\* the first response without a nextPageToken.
Thm_C27 ==
  /\ [](entry.fn = "listAll" =>
          /\ \A i \in 1..Len(reqLog) :
               /\ reqLog[i].kind = "list"
               /\ reqLog[i].pageSize = CONFIG.MAX_LIST_PAGE_SIZE
               /\ reqLog[i].orderByParam = entry.orderByClause
               /\ reqLog[i].pageToken = NoToken <=> i = 1
          /\ pc = "listAll.request" => (pageToken = NoToken <=> reqLog = <<>>))
  /\ [][entry.fn = "listAll" =>
          /\ (pc = "listAll.await" /\ resp # <<>> /\ resp[1].ok /\ pc' # pc) =>
               IF resp[1].nextPageToken = NoToken
               THEN pc' = "resume" /\ ret'.kind = "value" /\ reqLog' = reqLog
               ELSE pc' = "listAll.request" /\ pageToken' = resp[1].nextPageToken
          /\ reqLog' # reqLog =>
               /\ pc = "listAll.request"
               /\ reqLog'[Len(reqLog')].pageToken = pageToken]_vars

\* A listing with an orderBy clause returned after three requests.
Wit_C27 ==
  /\ entry.fn = "listAll" /\ entry.orderByClause # ""
  /\ pc = "done" /\ outcome.kind = "value"
  /\ Len(reqLog) = 3
  /\ reqLog[2].pageToken # reqLog[3].pageToken

\* the last document of the page before request i, when every page before it
\* was full
LastOfPage(i) ==
  InQueryOrder(entry.collectionId, entry.orderField)[(i - 1) * CONFIG.QUERY_PAGE_SIZE]

\* C28: runQueryAll's first request carries no cursor; every later request
\* carries startAt with the order-field value and the name of the last document
\* of the page just before, and before = false; every request has the same
\* orderBy (the order field ascending, then __name__ ascending) and limit.
Thm_C28 ==
  entry.fn = "runQueryAll" =>
    \A i \in 1..Len(reqLog) :
      /\ reqLog[i].kind = "runQuery"
      /\ reqLog[i].orderBy = <<[field |-> entry.orderField, direction |-> "ASCENDING"],
                               [field |-> "__name__", direction |-> "ASCENDING"]>>
      /\ reqLog[i].limit = CONFIG.QUERY_PAGE_SIZE
      /\ IF i = 1 THEN reqLog[i].startAt = <<>>
         ELSE reqLog[i].startAt =
                <<[values |-> <<LastOfPage(i).fields[entry.orderField], LastOfPage(i).name>>,
                   before |-> FALSE]>>

\* Three documents in pages of one, the first two tied on the order field: the
\* third request starts after the second document.
Wit_C28 ==
  /\ entry.fn = "runQueryAll" /\ CONFIG.QUERY_PAGE_SIZE = 1
  /\ Len(reqLog) = 3
  /\ LastOfPage(2).fields[entry.orderField] = LastOfPage(3).fields[entry.orderField]
  /\ reqLog[3].startAt[1].values[2] = LastOfPage(3).name

\* ---- the steps of exportKin
StepFiles ==
  <<"profile.json", "chat_messages.json", "pinned_messages.json", "journal.json",
    "selfies.json", "video_selfies.json">>

StepSources ==
  <<"", "ChatMessages", "PinnedMessages", "JournalV3", "Selfies", "VideoSelfies">>

\* what a request asks for: a collection, or "" for the entity's document
SourceOf(req) ==
  IF req.kind = "get" THEN ""
  ELSE IF req.kind = "list" THEN req.path[Len(req.path)]
  ELSE req.collectionId

\* C29: exportKin takes its steps in the order profile, chat messages, pinned
\* messages, journal, selfies, video selfies, media download: the files are
\* written in that order, a request is for the step after the files written so
\* far, the download does not start before the six files are written, and the
\* chat messages are queried before they are listed.
Thm_C29 ==
  /\ [](entry.fn = "exportKin" =>
          /\ Len(files) <= 6
          /\ \A i \in 1..Len(files) : files[i].name = StepFiles[i]
          /\ dl # "idle" => Len(files) = 6
          /\ (\E i \in TaskIds : fetched[i] > 0) => Len(files) = 6
          /\ \A i \in 1..Len(reqLog) :
               (reqLog[i].kind = "list" /\ SourceOf(reqLog[i]) = "ChatMessages") =>
                 \E h \in 1..(i - 1) :
                   reqLog[h].kind = "runQuery" /\ SourceOf(reqLog[h]) = "ChatMessages")
  /\ [][(entry.fn = "exportKin" /\ reqLog' # reqLog) =>
          /\ Len(files) < 6
          /\ SourceOf(reqLog'[Len(reqLog')]) = StepSources[Len(files) + 1]
          /\ reqLog'[Len(reqLog')].path[4] = entry.parentDocPath[4]]_vars

\* The chat query failed and the chat messages were listed; all six files are
\* written and the download is running.
Wit_C29 ==
  /\ entry.fn = "exportKin" /\ dl = "running"
  /\ Len(files) = 6
  /\ \E i \in 1..Len(reqLog) : reqLog[i].kind = "list" /\ SourceOf(reqLog[i]) = "ChatMessages"
  /\ \E i \in TaskIds : fetched[i] > 0

\* ---- termination of downloadMedia
Drained ==
  /\ dl = "resolved"
  /\ itemsToProcess = <<>>
  /\ \A w \in DOMAIN workers : workers[w].pc = "exited"

\* C30: when every destination check, fetch and file write settles, a call of
\* downloadMedia resolves, with every worker returned and the pool empty; on
\* an empty task list it returns in its first step, with no worker started and
\* no request made.
Thm_C30 ==
  /\ (dl = "start") ~> Drained
  /\ [](dl = "resolved" => Drained)
  /\ [](Len(items) = 0 => (dl # "running" /\ workers = <<>>))
  /\ [][(dl = "start" /\ Len(items) = 0) => dl' = "resolved"]_vars
  /\ [](\A i \in TaskIds : i > Len(items) \/ dl = "start" => fetched[i] = 0)

\* A call with as many tasks as the bound allows has resolved after two workers
\* shared them, some tasks failing and some succeeding.
Wit_C30 ==
  /\ Drained
  /\ Len(items) = MaxTasks /\ Len(workers) >= 2
  /\ failed > 0 /\ completed > 0
  /\ \E i \in 1..Len(items) : fetched[i] > 0

\* ---- the documents of an aborted query
\* The query of fetchJournalAll failed with a permission error after it had
\* received at least one page.
QueryAbortedLate ==
  /\ entry.fn = "fetchJournalAll"
  /\ failLog # <<>>
  /\ failLog[1].kind = "runQuery" /\ failLog[1].index >= 2
  /\ IsPermissionFailure(failLog[1])

JournalListing ==
  Listing([Request("list", Append(entry.parentDocPath, entry.collectionId)) EXCEPT
             !.orderByParam = JournalOrderBy])

\* C31: when the query fails with a permission error after one or more pages,
\* the listing fallback starts from no documents, what it has gathered is at
\* every moment the head of the listing, and fetchJournalAll's result is the
\* listing and nothing else: every document of the collection once.
Thm_C31 ==
  QueryAbortedLate =>
    /\ (stack # <<>> /\ Top(stack) = "fetchJournalAll.catch" /\ args.fn = "listAll") =>
         /\ Len(documents) <= Len(JournalListing)
         /\ documents = SubSeq(JournalListing, 1, Len(documents))
    /\ (pc = "done" /\ outcome.kind = "value") =>
         /\ outcome.docs = JournalListing
         /\ NoDuplicates(outcome.docs)
         /\ Len(outcome.docs) = Cardinality(store[entry.collectionId])

\* The query had received two pages of one document when its third request was
\* refused; the listing returned the three documents.
Wit_C31 ==
  /\ QueryAbortedLate /\ failLog[1].index = 3
  /\ CONFIG.QUERY_PAGE_SIZE = 1
  /\ pc = "done" /\ outcome.kind = "value"
  /\ Len(outcome.docs) = 3

\* ---- tasks that share a destination
Wrote(i) == Occurrences(io[i], "written") > 0

\* C32 as stated: of the tasks of one call that share a destination, at most one
\* fetches and writes it; a task taken after it finds the file and is skipped.
Claim_C32 ==
  \A i, j \in TaskIds :
    (i # j /\ items[i].dest = items[j].dest) => ~(Wrote(i) /\ Wrote(j))

\* ---- a failed fetch leaves no file
SoleDest(i) == \A j \in TaskIds : j # i => items[j].dest # items[i].dest

FetchFailed(h) == Occurrences(h, "fetch failed") > 0

\* C33: a task that failed at its fetch has written nothing: when no other task
\* has its destination, the destination is absent from then on, and in the next
\* call over the same tasks the task is not skipped but fetched again.
Thm_C33 ==
  \A i \in TaskIds :
    SoleDest(i) =>
      /\ FetchFailed(io[i]) =>
           /\ io[i] = <<"fetch", "fetch failed">>
           /\ counted[i] = <<"failed">>
           /\ items[i].dest \notin disk
      /\ (runs # <<>> /\ FetchFailed(runs[Len(runs)].io[i])) =>
           /\ io[i] # <<>> => io[i][1] = "fetch"
           /\ dl = "resolved" => fetched[i] = 1

\* A task failed at its fetch in the first call and was fetched and written in
\* the second, while the other task was skipped there.
Wit_C33 ==
  /\ Len(runs) = 1 /\ dl = "resolved"
  /\ \E i, j \in TaskIds :
       /\ SoleDest(i) /\ i # j
       /\ runs[1].io[i] = <<"fetch", "fetch failed">>
       /\ io[i] = <<"fetch", "write", "written">>
       /\ io[j] = <<"exists">>

\* ---- the end of an Export All
JournalAttempted ==
  \E i \in 1..Len(calls) : calls[i].fn = "handleGlobalJournalMenu" /\ calls[i].result # ""

\* "Full Account Export Finished" is logged and handleExportAll returns.
Finished == pc = "done" /\ outcome.kind = "value"

\* A request of handleExportAll's own listing of the Kins or of the Group Chats
\* has failed.
OwnListingFailed ==
  \E k \in 1..Len(failLog) :
    /\ reqLog[failLog[k].index].kind = "list"
    /\ reqLog[failLog[k].index].path \in {Append(UserPath, "AIs"), Append(UserPath, "Groups")}

\* C34 as stated: a confirmed Export All that has ended has attempted the Global
\* Journal export and has reached its Finished step, whatever failed before.
Claim_C34 ==
  (BulkRun /\ Confirmed /\ pc = "done") => (JournalAttempted /\ Finished)

\* C34, for errors inside exportKin and exportGroup: a confirmed Export All that
\* has ended has attempted the Global Journal export and reached its Finished
\* step, unless one of its own two listings failed; then it has thrown that
\* error and has not started the Global Journal export.
Thm_C34 ==
  (BulkRun /\ Confirmed /\ pc = "done") =>
    IF OwnListingFailed
    THEN /\ outcome.kind = "throw"
         /\ outcome.error = HttpError("GET", failLog[Len(failLog)])
         /\ \A i \in 1..Len(calls) : calls[i].fn # "handleGlobalJournalMenu"
    ELSE JournalAttempted /\ Finished

\* The export of the Group Chat threw; the Global Journal was exported and
\* handleExportAll returned.
Wit_C34 ==
  /\ BulkRun /\ Confirmed /\ Finished
  /\ \E i \in 1..Len(calls) : calls[i].fn = "exportGroup" /\ calls[i].result = "thrown"
  /\ calls[Len(calls)] = [fn |-> "handleGlobalJournalMenu", id |-> "GlobalJournalV3",
                          result |-> "returned"]
  /\ \E i \in 1..Len(files) : files[i].name = "global_journal.json"

\* ---- an export that fails at a step
ExportThrew ==
  /\ entry.fn \in {"exportKin", "exportGroup"}
  /\ pc = "done" /\ outcome.kind = "throw"

LastFailure == failLog[Len(failLog)]

\* C35: an export whose step fails throws that step's error: the files of the
\* steps before it are written and stay written, the failed request is the last
\* one issued, and nothing of a later step has happened - no request, no file,
\* no question, no download.  Files once written are never taken back.
Thm_C35 ==
  /\ [](ExportThrew =>
          /\ failLog # <<>>
          /\ LastFailure.index = Len(reqLog)
          /\ outcome.error = HttpError(IF LastFailure.kind = "runQuery" THEN "POST" ELSE "GET",
                                       LastFailure)
          /\ Len(files) < (IF entry.fn = "exportKin" THEN 6 ELSE 3)
          /\ \A i \in 1..Len(files) : files[i].name = StepFiles[i]
          /\ SourceOf(reqLog[Len(reqLog)]) = StepSources[Len(files) + 1]
          /\ \A i \in 1..Len(reqLog) :
               \E s \in 1..(Len(files) + 1) : SourceOf(reqLog[i]) = StepSources[s]
          /\ prompts = <<>> /\ dl = "idle")
  /\ [][entry.fn \in {"exportKin", "exportGroup"} =>
          (Len(files') >= Len(files) /\ SubSeq(files', 1, Len(files)) = files)]_vars

\* exportKin threw at its journal step, the query refused and the listing
\* failed: the three files before it are written.
Wit_C35 ==
  /\ ExportThrew /\ entry.fn = "exportKin"
  /\ Len(files) = 3 /\ files[3].name = "pinned_messages.json"
  /\ Len(failLog) = 2 /\ failLog[1].kind = "runQuery" /\ failLog[2].kind = "list"

\* ---- rows without a document
\* the documents the rows of a response carry, in order
RECURSIVE Carried(_)
Carried(rows) ==
  IF rows = <<>> THEN <<>> ELSE Head(rows) \o Carried(Tail(rows))

\* C37: runQueryAll keeps every document a page carries, whatever rows without
\* a document lie among them, and it stops only when it holds every document
\* the query selects: a page with such rows loses nothing of the collection.
Thm_C37 ==
  /\ []((entry.fn = "runQueryAll" /\ pc = "done" /\ outcome.kind = "value" /\ metaRows > 0) =>
          /\ outcome.docs = InQueryOrder(entry.collectionId, entry.orderField)
          /\ Len(outcome.docs) = Cardinality(store[entry.collectionId]))
  /\ [][(/\ args.fn = "runQueryAll" /\ pc = "runQueryAll.await"
         /\ resp # <<>> /\ resp[1].ok /\ pc' # pc) =>
          /\ documents' = documents \o Carried(resp[1].rows)
          /\ pc' = "resume" =>
               documents' = InQueryOrder(args.collectionId, args.orderField)]_vars

\* Three documents queried in pages of one; one of the three pages had a row
\* without a document beside its document, and all three documents came back.
Wit_C37 ==
  /\ entry.fn = "runQueryAll" /\ pc = "done" /\ outcome.kind = "value"
  /\ metaRows = 1
  /\ CONFIG.QUERY_PAGE_SIZE = 1 /\ Len(reqLog) = 4
  /\ Len(outcome.docs) = 3

\* ---- two versions
IsPrefix(s, t) == Len(s) <= Len(t) /\ SubSeq(t, 1, Len(s)) = s

====
